---- MODULE Spec2Model ----
(***************************************************************************)
(* A model of fx, the filesystem inspection toolkit (xandkar/fx):          *)
(*   dups  - multi-pass duplicate refiner        (src/src/cmd/dups.rs)     *)
(*   find  - the filtering directory walker      (src/src/data.rs)         *)
(*   top   - size aggregation and ranking        (src/src/cmd/top.rs)      *)
(*   loops - the symlink cycle detector          (src/src/cmd/loops.rs)    *)
(*   dang  - the dangling-link probe             (src/src/cmd/dang.rs)     *)
(*   hash  - the streaming digesters             (src/src/hash.rs)         *)
(*   path  - lexical normalisation               (src/src/path.rs)         *)
(* Each command has its own specification over the shared variables; the   *)
(* variables of the commands that are not running keep their idle values.  *)
(***************************************************************************)
EXTENDS Integers, Sequences, FiniteSets, TLC

VARIABLES
    \* ---- dups -----------------------------------------------------------
    entries,               \* what the walk of the root yields: Seq of [typ, bytes]
    sample_size,           \* Cmd.sample_size
    chunk_size,            \* Cmd.chunk_size
    enable_blake3_pass,    \* Cmd.enable_blake3_pass
    enable_sha2_512_pass,  \* Cmd.enable_sha2_512_pass
    groups,                \* dups: `groups`, a Vec<Vec<Meta>>
    pass,                  \* number of groupers already applied
    dstatus,               \* "start", "refining", "done", "panicked"
    prev,                  \* the GroupList the last pass was given
    failed,                \* paths whose grouper returned Err in the last pass
    faults,                \* number of reads that have failed so far
    hashed,                \* paths a full-content hash has been invoked on
    \* ---- the filesystem and the walker (data::Find) ----------------------
    fs,                    \* the tree: real path -> [typ, dst, ino]
    root_path,             \* the root the command was given
    skip_dirs,             \* Find.skip_dirs
    skip_prefixes,         \* Find.skip_prefixes
    frontier,              \* Find.frontier, a Vec<Meta> used as a stack
    out,                   \* the items next() has returned so far
    ended,                 \* next() has returned None
    \* ---- top: count_dir_sizes --------------------------------------------
    files,                 \* `files`: path of a regular file -> its size
    top_root,              \* `root_path` of count_dir_sizes
    cursor,                \* per file: how many ancestors its task has done
    held,                  \* the tasks that hold the entry of their directory
    local,                 \* per file: the value its task read from the entry
    dirs,                  \* `dirs`: directory -> accumulated size
    tstatus,               \* "running", "done"
    \* ---- top: sort -------------------------------------------------------
    sort_input,            \* `sizes`, the (path, size) pairs in iteration order
    report_limit,          \* `report_limit`, an Option<usize>
    ranked,                \* what sort returned
    sstatus,               \* "given", "ranked"
    \* ---- loops -----------------------------------------------------------
    loops_consumed,        \* items of the walk the for loop has taken
    index,                 \* `index`: inode -> set of link paths
    verdicts,              \* what find_cycling_inode returned, per link
    lstatus,               \* "running", "done", "failed"
    \* ---- dang ------------------------------------------------------------
    dang_consumed,         \* items of the walk the filters have taken
    probes,                \* what canonicalize returned, per item taken
    emitted,               \* the paths printed so far
    gstatus,               \* "running", "done"
    \* ---- one call of a digester (hash.rs) or of a sampler (dups.rs) -----
    io_op,                 \* "xxh", "blake3", "sha2_512", "head", "mid"
    io_bytes,              \* the content of the file while it is read
    io_size,               \* Meta.size, recorded when the file was found
    io_arg,                \* chunk_size of a digester, sample_size of a sampler
    io_pos,                \* the offset of the open file
    io_buf,                \* a sampler's `buf`; the bytes a digester has fed
    io_read_total,         \* a sampler's `read_total`
    io_status,             \* "start", "reading", "ok", "failed", "panicked"
    io_err,                \* the kind of the io::Error returned, or "none"
    io_intrs,              \* Interrupted reads so far
    \* ---- one call of path::normalize -------------------------------------
    n_working_dir,         \* `working_dir`, an absolute path
    n_path,                \* `path`: [abs, segs]
    n_normalized,          \* what normalize returned
    n_status,              \* "given", "done"
    \* ---- one call of refine on the thread pool ---------------------------
    par_name,              \* the pass: which grouper refine was given
    par_ids,               \* <<group, member>> -> what its grouper returned
    par_parts,             \* group -> the sub-groups its task emitted
    par_out,               \* `refined_groups`, once collected
    par_status,            \* "running", "done", "panicked"
    \* ---- one call of find_cycling_inode, iteration by iteration ----------
    cyc_entry,             \* `entry_path`: the Meta of the symlink
    cyc_visited,           \* `visited`: set of inodes
    cyc_frontier,          \* `frontier` of find_cycling_inode: Seq of Meta
    pops,                  \* how often frontier.pop() returned a Meta
    expanded,              \* the inodes whose Meta was expanded, in order
    cyc_result,            \* what the call returned
    cyc_status             \* "running", "done", "failed"

dupsVars == <<entries, sample_size, chunk_size, enable_blake3_pass,
              enable_sha2_512_pass, groups, pass, dstatus, prev, failed,
              faults, hashed>>

walkVars == <<fs, root_path, skip_dirs, skip_prefixes, frontier, out, ended>>

topVars == <<files, top_root, cursor, held, local, dirs, tstatus>>
sortVars == <<sort_input, report_limit, ranked, sstatus>>
loopsVars == <<loops_consumed, index, verdicts, lstatus>>
dangVars == <<dang_consumed, probes, emitted, gstatus>>
ioVars == <<io_op, io_bytes, io_size, io_arg, io_pos, io_buf, io_read_total,
            io_status, io_err, io_intrs>>
normVars == <<n_working_dir, n_path, n_normalized, n_status>>
parVars == <<par_name, par_ids, par_parts, par_out, par_status>>
cycVars == <<cyc_entry, cyc_visited, cyc_frontier, pops, expanded, cyc_result,
             cyc_status>>
vars == <<dupsVars, walkVars, topVars, sortVars, loopsVars, dangVars, ioVars,
          normVars, parVars, cycVars>>

\* The variables a command leaves alone: those of the other commands.
notDups == <<walkVars, topVars, sortVars, loopsVars, dangVars, ioVars,
    normVars, parVars, cycVars>>
notWalk == <<dupsVars, topVars, sortVars, loopsVars, dangVars, ioVars,
    normVars, parVars, cycVars>>
notTop == <<dupsVars, walkVars, sortVars, loopsVars, dangVars, ioVars,
    normVars, parVars, cycVars>>
notSort == <<dupsVars, walkVars, topVars, loopsVars, dangVars, ioVars,
    normVars, parVars, cycVars>>
\* loops and dang drive the walker themselves.
notLoops == <<dupsVars, topVars, sortVars, dangVars, ioVars,
    normVars, parVars, cycVars>>
notDang == <<dupsVars, topVars, sortVars, loopsVars, ioVars,
    normVars, parVars, cycVars>>

DupsIdle ==
    /\ entries = <<>>
    /\ sample_size = 0
    /\ chunk_size = 0
    /\ enable_blake3_pass = FALSE
    /\ enable_sha2_512_pass = FALSE
    /\ groups = <<>>
    /\ pass = 0
    /\ dstatus = "idle"
    /\ prev = <<>>
    /\ failed = {}
    /\ faults = 0
    /\ hashed = {}

TopIdle ==
    /\ files = <<>>
    /\ top_root = <<>>
    /\ cursor = <<>>
    /\ held = {}
    /\ local = <<>>
    /\ dirs = <<>>
    /\ tstatus = "idle"

SortIdle ==
    /\ sort_input = <<>>
    /\ report_limit = [some |-> FALSE]
    /\ ranked = <<>>
    /\ sstatus = "idle"

LoopsIdle ==
    /\ loops_consumed = 0
    /\ index = <<>>
    /\ verdicts = <<>>
    /\ lstatus = "idle"

DangIdle ==
    /\ dang_consumed = 0
    /\ probes = <<>>
    /\ emitted = <<>>
    /\ gstatus = "idle"

notIo == <<dupsVars, walkVars, topVars, sortVars, loopsVars, dangVars,
          normVars, parVars, cycVars>>
notNorm == <<dupsVars, walkVars, topVars, sortVars, loopsVars, dangVars,
            ioVars, parVars, cycVars>>

\* What a call of refine leaves alone.
notPar == <<walkVars, topVars, sortVars, loopsVars, dangVars, ioVars,
           normVars, cycVars>>

\* What a call of find_cycling_inode leaves alone.
notCyc == <<dupsVars, walkVars, topVars, sortVars, loopsVars, dangVars, ioVars,
           normVars, parVars>>

CycIdle ==
    /\ cyc_entry = <<>>
    /\ cyc_visited = {}
    /\ cyc_frontier = <<>>
    /\ pops = 0
    /\ expanded = <<>>
    /\ cyc_result = [some |-> FALSE]
    /\ cyc_status = "idle"

ParIdle ==
    /\ par_name = "idle"
    /\ par_ids = <<>>
    /\ par_parts = <<>>
    /\ par_out = <<>>
    /\ par_status = "idle"

IoIdle ==
    /\ io_op = "idle"
    /\ io_bytes = <<>>
    /\ io_size = 0
    /\ io_arg = 0
    /\ io_pos = 0
    /\ io_buf = <<>>
    /\ io_read_total = 0
    /\ io_status = "idle"
    /\ io_err = "none"
    /\ io_intrs = 0

NormIdle ==
    /\ n_working_dir = <<>>
    /\ n_path = [abs |-> FALSE, segs |-> <<>>]
    /\ n_normalized = <<>>
    /\ n_status = "idle"

WalkIdle ==
    /\ fs = <<>>
    /\ root_path = <<>>
    /\ skip_dirs = {}
    /\ skip_prefixes = {}
    /\ frontier = <<>>
    /\ out = <<>>
    /\ ended = FALSE

(***************************************************************************)
(* Bounds and input sets of the model.                                     *)
(***************************************************************************)
\* Number of regular files under a dups root.
NFiles == 4

\* Number of reads that fail during one run of dups.
MaxFaults == 1

Bytes == {0, 1}

\* File contents: the empty file, a one-byte file, and three-byte files that
\* differ in their last byte only or from their middle byte on.
Contents == {<<>>, <<1>>, <<0, 0, 0>>, <<0, 0, 1>>, <<0, 1, 1>>}

\* Values of --sample: zero, smaller than a file, no smaller than any file
\* (as the default, 8192, is for small files).
SampleSizes == {0, 1, 3}

\* Values of --chunk: zero, and a size that does not divide one file's and
\* exceeds another's.
ChunkSizes == {0, 2}

Min(a, b) == IF a <= b THEN a ELSE b

\* Sequences over set S of length 0..n.
SeqsUpTo(S, n) == UNION {[1..k -> S] : k \in 0..n}

Range(s) == {s[i] : i \in 1..Len(s)}

(***************************************************************************)
(* Byte encodings and digests.                                             *)
(***************************************************************************)
\* u64::to_le_bytes: eight bytes, least significant first.
RECURSIVE le_bytes(_, _)
le_bytes(n, width) ==
    IF width = 0 THEN <<>> ELSE <<n % 256>> \o le_bytes(n \div 256, width - 1)

to_le_bytes(n) == le_bytes(n, 8)

\* The digest functions themselves are library code.  They are modelled as
\* collision free on the inputs of the model: the digest of the bytes fed to
\* the hasher is their bijective base-(|Bytes|+1) numeral (far below 2^64
\* for the inputs of the model, so no digest wraps).
RECURSIVE Numeral(_)
Numeral(fed) ==
    IF fed = <<>> THEN 0
    ELSE (Head(fed) + 1) + (Cardinality(Bytes) + 1) * Numeral(Tail(fed))

\* The read loop shared by hash::xxh, hash::blake3 and hash::sha2_512:
\* read up to chunk_size bytes into buff; n = 0 ends the loop, otherwise
\* buff[..n] is fed to the hasher.  Returns the bytes fed, in order.
RECURSIVE hash_loop(_, _, _, _)
hash_loop(bytes, pos, chunk, fed) ==
    LET n == Min(chunk, Len(bytes) - pos)
    IN  IF n = 0 THEN fed
        ELSE hash_loop(bytes, pos + n, chunk,
                       fed \o SubSeq(bytes, pos + 1, pos + n))

xxh(bytes, chunk) == Numeral(hash_loop(bytes, 0, chunk, <<>>))

blake3(bytes, chunk) == <<"blake3", Numeral(hash_loop(bytes, 0, chunk, <<>>))>>

sha2_512(bytes, chunk) == <<"sha2_512", Numeral(hash_loop(bytes, 0, chunk, <<>>))>>

(***************************************************************************)
(* dups: metadata, samplers, groupers.                                     *)
(***************************************************************************)
\* Meta of the i-th entry (its path is its index in the listing).
MetaOf(i) == [path |-> i, typ |-> entries[i].typ, size |-> Len(entries[i].bytes)]

is_regular_file(m) == m.typ = "Regular"

Ok(v) == [kind |-> "Ok", id |-> v]
Err == [kind |-> "Err"]
Panic == [kind |-> "Panic"]

\* read(path, amount, offset): open, seek, then fill a zeroed buffer of
\* `amount` bytes until it is full or EOF is reached.  `bad` are the paths
\* whose open/read fails with an I/O error.
read(path, amount, offset, bad) ==
    IF path \in bad \/ entries[path].typ # "Regular" THEN Err
    ELSE LET bytes == entries[path].bytes
         IN  Ok([i \in 1..amount |->
                   IF offset + i <= Len(bytes) THEN bytes[offset + i] ELSE 0])

read_head(m, sample, bad) ==
    LET offset == 0
        total == m.size
        amount == Min(total, sample)
    IN  read(m.path, amount, offset, bad)

\* total / sample_size / 2: an integer division by zero panics.
read_mid(m, sample, bad) ==
    IF sample = 0 THEN Panic
    ELSE LET offset == (m.size \div sample) \div 2
             total == m.size
             amount == Min(total, sample)
         IN  read(m.path, amount, offset, bad)

hash_file(alg, m, chunk, bad) ==
    IF m.path \in bad \/ entries[m.path].typ # "Regular" THEN Err
    ELSE LET bytes == entries[m.path].bytes
         IN  CASE alg = "xxh" -> Ok(to_le_bytes(xxh(bytes, chunk)))
               [] alg = "blake3" -> Ok(blake3(bytes, chunk))
               [] alg = "sha2_512" -> Ok(sha2_512(bytes, chunk))

\* The groupers that read the whole file: hash::xxh, blake3, sha2_512.
is_hash(name) == name \in {"xxh", "blake3", "sha2_512"}

\* A pipeline that hashes before it samples.
groupers_hash_first(blake, sha) ==
    <<"xxh">>
        \o (IF blake THEN <<"blake3">> ELSE <<>>)
        \o (IF sha THEN <<"sha2_512">> ELSE <<>>)
        \o <<"size", "head", "mid">>

\* groupers(): the pipeline of discriminators, in order.
groupers(blake, sha) ==
    <<"size", "head", "mid", "xxh">>
        \o (IF blake THEN <<"blake3">> ELSE <<>>)
        \o (IF sha THEN <<"sha2_512">> ELSE <<>>)

\* One grouper applied to one member.
grouper(name, m, sample, chunk, bad) ==
    CASE name = "size" -> Ok(to_le_bytes(m.size))
      [] name = "head" -> read_head(m, sample, bad)
      [] name = "mid" -> read_mid(m, sample, bad)
      [] OTHER -> hash_file(name, m, chunk, bad)

(***************************************************************************)
(* refine: one pass over a GroupList.                                      *)
(***************************************************************************)
\* The (id, member) pairs the filter_map collects: members whose grouper
\* failed are dropped, the others keep the order of the group.  `res` maps
\* each member's path to what the grouper returned for it.
RECURSIVE collected(_, _)
collected(group, res) ==
    IF group = <<>> THEN <<>>
    ELSE LET r == res[Head(group).path]
             rest == collected(Tail(group), res)
         IN  IF r.kind = "Ok" THEN <<<<r.id, Head(group)>>>> \o rest ELSE rest

\* refined_groups.entry(id).or_default().push(member), for each pair: the
\* map is kept as a sequence of <<id, members>> in order of first insertion.
RECURSIVE insert_all(_, _)
insert_all(map, pairs) ==
    IF pairs = <<>> THEN map
    ELSE LET id == Head(pairs)[1]
             member == Head(pairs)[2]
             hit == {k \in 1..Len(map) : map[k][1] = id}
             map2 == IF hit = {}
                     THEN Append(map, <<id, <<member>>>>)
                     ELSE LET k == CHOOSE k \in hit : TRUE
                          IN  [map EXCEPT ![k] = <<id, Append(map[k][2], member)>>]
         IN  insert_all(map2, Tail(pairs))

\* A refiner that emits every sub-group, singletons included.
keep_groups_all(map) == [k \in 1..Len(map) |-> map[k][2]]

\* A refiner that keeps the first member of every sub-group to itself.
keep_groups_tail(map) ==
    LET big == SelectSeq(map, LAMBDA e : Len(e[2]) > 1)
    IN  [k \in 1..Len(big) |-> Tail(big[k][2])]

\* into_values().filter(|group| group.len() > 1)
keep_groups(map) ==
    LET big == SelectSeq(map, LAMBDA e : Len(e[2]) > 1)
    IN  [k \in 1..Len(big) |-> big[k][2]]

refine_group(group, res) == keep_groups(insert_all(<<>>, collected(group, res)))

RECURSIVE flatten(_)
flatten(ss) == IF ss = <<>> THEN <<>> ELSE Head(ss) \o flatten(Tail(ss))

\* A refiner that partitions the whole GroupList at once.
refine_merged(gs, res) == refine_group(flatten(gs), res)

refine(gs, res) == flatten([g \in 1..Len(gs) |-> refine_group(gs[g], res)])

Members(gs) == UNION {Range(gs[g]) : g \in 1..Len(gs)}

\* What the grouper `name` returns for every member of the GroupList.
results(name, gs, bad) ==
    [p \in {m.path : m \in Members(gs)} |->
        grouper(name, MetaOf(p), sample_size, chunk_size, bad)]

\* A panic in any member's grouper unwinds through the parallel iterators
\* and out of refine.
panics(res) == \E p \in DOMAIN res : res[p].kind = "Panic"

(***************************************************************************)
(* dups: the command.                                                      *)
(***************************************************************************)
\* find_files: the regular files of positive size, as one group.
find_files ==
    LET metas == [i \in 1..Len(entries) |-> MetaOf(i)]
    IN  <<SelectSeq(metas, LAMBDA m : is_regular_file(m) /\ m.size > 0)>>

Pipeline == groupers(enable_blake3_pass, enable_sha2_512_pass)

\* The listings of the model: NFiles regular files, one listing per multiset
\* of contents (the order of a listing is the walker's, modelled with the
\* walker), followed by one directory, which the walk yields as well.
ContentRank(b) == Numeral(b)

Listings ==
    {l \o <<[typ |-> "Directory", bytes |-> <<0>>]>> :
        l \in {x \in [1..NFiles -> [typ : {"Regular"}, bytes : Contents]] :
                  \A i \in 1..(NFiles - 1) :
                      ContentRank(x[i].bytes) <= ContentRank(x[i + 1].bytes)}}

DupsInit ==
    /\ entries \in Listings
    /\ sample_size \in SampleSizes
    /\ chunk_size \in ChunkSizes
    /\ enable_blake3_pass \in BOOLEAN
    /\ enable_sha2_512_pass \in BOOLEAN
    /\ groups = <<>>
    /\ pass = 0
    /\ dstatus = "start"
    /\ prev = <<>>
    /\ failed = {}
    /\ faults = 0
    /\ hashed = {}

DupsConfigUnchanged ==
    UNCHANGED <<entries, sample_size, chunk_size, enable_blake3_pass,
                enable_sha2_512_pass, notDups>>

\* dups, lines 98-118: collect the initial group.
FindFiles ==
    /\ dstatus = "start"
    /\ groups' = find_files
    /\ dstatus' = "refining"
    /\ UNCHANGED <<pass, prev, failed, faults, hashed>>
    /\ DupsConfigUnchanged

\* dups, lines 124-131: one iteration of the loop over groupers(), with
\* `bad` the paths whose I/O fails during this pass.
RefinePass(bad) ==
    /\ dstatus = "refining"
    /\ pass < Len(Pipeline)
    /\ LET res == results(Pipeline[pass + 1], groups, bad)
       IN  /\ prev' = groups
           /\ pass' = pass + 1
           /\ hashed' = IF is_hash(Pipeline[pass + 1])
                        THEN hashed \union DOMAIN res
                        ELSE hashed
           /\ IF panics(res)
              THEN /\ dstatus' = "panicked"
                   /\ groups' = <<>>
                   /\ failed' = {}
              ELSE /\ dstatus' = "refining"
                   /\ groups' = refine(groups, res)
                   /\ failed' = {p \in DOMAIN res : res[p].kind = "Err"}
    /\ DupsConfigUnchanged

\* dups, lines 135-149: report the groups.
Report ==
    /\ dstatus = "refining"
    /\ pass = Len(Pipeline)
    /\ dstatus' = "done"
    /\ UNCHANGED <<groups, pass, prev, failed, faults, hashed>>
    /\ DupsConfigUnchanged

\* A pass in which every read succeeds.
Refine == RefinePass({}) /\ UNCHANGED faults

\* A pass in which the reads of one member fail (not the size pass, which
\* does no I/O).
RefineIO ==
    /\ faults < MaxFaults
    /\ pass >= 1
    /\ \E p \in {m.path : m \in Members(groups)} : RefinePass({p})
    /\ faults' = faults + 1

DupsNext == FindFiles \/ Refine \/ Report

DupsIONext == FindFiles \/ Refine \/ RefineIO \/ Report

InitDups == DupsInit /\ WalkIdle /\ TopIdle /\ SortIdle /\ LoopsIdle /\ DangIdle /\ IoIdle
    /\ NormIdle /\ ParIdle /\ CycIdle

SpecDups == InitDups /\ [][DupsNext]_vars

SpecDupsIO == InitDups /\ [][DupsIONext]_vars

(***************************************************************************)
(* The filesystem: paths, symlink resolution, metadata.                    *)
(***************************************************************************)
\* A path is the sequence of its components below "/"; <<>> is "/" itself.
\* A symlink target is a sequence of components too, where "/" (only in
\* front) is the root component, ".." the parent and "." the current
\* directory.
Names == {"a", "b"}

Targets == {<<"a">>, <<"b">>, <<"..">>}

\* Path::starts_with: component-wise prefix.
starts_with(path, prefix) ==
    Len(prefix) <= Len(path) /\ SubSeq(path, 1, Len(prefix)) = prefix

\* PathBuf::pop: drop the last component; "/" stays "/".
pop(path) == IF path = <<>> THEN <<>> ELSE SubSeq(path, 1, Len(path) - 1)

\* Path::parent of a path that has one.
parent(path) == SubSeq(path, 1, Len(path) - 1)

\* A normalize in which a root component leaves the accumulator alone.
RECURSIVE normalize_without_reset(_, _)
normalize_without_reset(working_dir, path) ==
    IF path = <<>> THEN working_dir
    ELSE LET comp == Head(path)
             normalized == CASE comp = "/" -> working_dir
                             [] comp = ".." -> pop(working_dir)
                             [] comp = "." -> working_dir
                             [] OTHER -> Append(working_dir, comp)
         IN  normalize_without_reset(normalized, Tail(path))

\* path::normalize: fold the components of `path` over `working_dir`.
RECURSIVE normalize(_, _)
normalize(working_dir, path) ==
    IF path = <<>> THEN working_dir
    ELSE LET comp == Head(path)
             normalized == CASE comp = "/" -> <<>>
                             [] comp = ".." -> pop(working_dir)
                             [] comp = "." -> working_dir
                             [] OTHER -> Append(working_dir, comp)
         IN  normalize(normalized, Tail(path))

NameCode(n) == IF n = "a" THEN 1 ELSE 2

\* The inode number of the object first created at a real path.
RECURSIVE PathCode(_)
PathCode(path) ==
    IF path = <<>> THEN 1
    ELSE 1 + NameCode(Head(path)) + (Cardinality(Names) + 1) * (PathCode(Tail(path)) - 1)

DirNode(path) == [typ |-> "Directory", dst |-> <<>>, ino |-> PathCode(path)]

NewNodes(path) ==
    {DirNode(path), [typ |-> "Regular", dst |-> <<>>, ino |-> PathCode(path)]}
        \union {[typ |-> "Symlink", dst |-> t, ino |-> PathCode(path)] : t \in Targets}

DirsOf(t) == {d \in DOMAIN t : t[d].typ = "Directory"}

\* The trees with at most n entries below "/".
RECURSIVE Trees(_)
Trees(n) ==
    IF n = 0 THEN {<<>> :> DirNode(<<>>)}
    ELSE LET smaller == Trees(n - 1)
         IN  smaller \union
             UNION {UNION {UNION {{t @@ (Append(d, nm) :> node) :
                                     node \in NewNodes(Append(d, nm))} :
                                  nm \in {x \in Names : Append(d, x) \notin DOMAIN t}} :
                           d \in DirsOf(t)} :
                    t \in smaller}

\* What the kernel answers when it resolves a path.
Found(real) == [ok |-> TRUE, real |-> real]
Errno(e) == [ok |-> FALSE, errno |-> e]

\* Resolution of the components `comps` from the real directory `cur`,
\* following at most `hops` symlinks; the last component is followed only
\* if `follow` (stat, canonicalize) and not otherwise (lstat).
resolve(from, path, max_hops, follow_last) ==
    LET walk[cur \in Seq(Names), comps \in Seq(Names \union {"/", "..", "."}),
             hops \in Nat, follow \in BOOLEAN] ==
            IF comps = <<>> THEN Found(cur)
            ELSE IF fs[cur].typ # "Directory" THEN Errno("ENOTDIR")
            ELSE LET comp == Head(comps)
                     rest == Tail(comps)
                 IN  CASE comp = "/" -> walk[<<>>, rest, hops, follow]
                       [] comp = ".." -> walk[pop(cur), rest, hops, follow]
                       [] comp = "." -> walk[cur, rest, hops, follow]
                       [] OTHER ->
                            LET e == Append(cur, comp)
                            IN  IF e \notin DOMAIN fs THEN Errno("ENOENT")
                                ELSE IF fs[e].typ = "Symlink" /\ (rest # <<>> \/ follow)
                                THEN IF hops = 0 THEN Errno("ELOOP")
                                     ELSE walk[cur, fs[e].dst \o rest, hops - 1, follow]
                                ELSE walk[e, rest, hops, follow]
    IN  walk[from, path, max_hops, follow_last]

\* The number of symlinks one resolution follows before it gives up.
MaxSymlinkHops == 6

lstat(path) == resolve(<<>>, path, MaxSymlinkHops, FALSE)

stat(path) == resolve(<<>>, path, MaxSymlinkHops, TRUE)

\* Meta::from_fs_metadata for the object at real path `real`, named `path`.
from_fs_metadata(path, real) ==
    [path |-> path, typ |-> fs[real].typ, dst |-> fs[real].dst, ino |-> fs[real].ino]

\* Meta::from_path: symlink_metadata, which does not follow the last link.
from_path(path) ==
    LET r == lstat(path)
    IN  IF r.ok THEN [ok |-> TRUE, meta |-> from_fs_metadata(path, r.real)]
        ELSE r

\* A metadata call that follows the last link as well.
from_dir_entry_following(path) ==
    LET r == stat(path)
    IN  IF r.ok THEN [ok |-> TRUE, meta |-> from_fs_metadata(path, r.real)]
        ELSE r

\* Meta::from_dir_entry: DirEntry::metadata does not follow the entry.
from_dir_entry(path) == from_path(path)

\* Path::read_dir: the paths of the entries of the directory at `path`.
read_dir(path) ==
    LET r == stat(path)
    IN  IF ~r.ok THEN r
        ELSE IF fs[r.real].typ # "Directory" THEN Errno("ENOTDIR")
        ELSE [ok |-> TRUE,
              entries |-> {Append(path, nm) : nm \in {x \in Names : Append(r.real, x) \in DOMAIN fs}}]

is_symlink(m) == m.typ = "Symlink"

\* A directory test on what the path names after following links.
is_directory_following(m) ==
    stat(m.path).ok /\ fs[stat(m.path).real].typ = "Directory"

is_directory(m) == m.typ = "Directory"

\* Every order in which a directory can list the entries S.
Orders(S) ==
    {o \in [1..Cardinality(S) -> S] : \A i, j \in 1..Cardinality(S) : o[i] = o[j] => i = j}

(***************************************************************************)
(* The walker: data::Find.                                                 *)
(***************************************************************************)
est_omittendus_praefixo(path) ==
    \E prefix \in skip_prefixes : starts_with(path, prefix)

est_omittendus_nomine(name) == name \in skip_dirs

\* The omission rule without its clause on directory names.
est_omittendus_sine_nomine(meta) == est_omittendus_praefixo(meta.path)

\* An omission rule whose name clause applies to every kind of entry.
est_omittendus_omni_nomine(meta) ==
    \/ est_omittendus_praefixo(meta.path)
    \/ /\ meta.path # <<>>
       /\ est_omittendus_nomine(meta.path[Len(meta.path)])

est_omittendus(meta) ==
    \/ est_omittendus_praefixo(meta.path)
    \/ /\ is_directory(meta)
       /\ meta.path # <<>>
       /\ est_omittendus_nomine(meta.path[Len(meta.path)])

\* The Metas of `paths` (in this order) that the loop over read_dir pushes.
RECURSIVE pushed(_)
pushed(paths) ==
    IF paths = <<>> THEN <<>>
    ELSE LET m == from_dir_entry(Head(paths)).meta
         IN  (IF est_omittendus(m) THEN <<>> ELSE <<m>>) \o pushed(Tail(paths))

\* self.frontier.pop() on a non-empty frontier: the Meta pushed last.
frontier_pop(stack) ==
    [meta |-> stack[Len(stack)], rest |-> SubSeq(stack, 1, Len(stack) - 1)]

OkItem(meta) == [ok |-> TRUE, meta |-> meta]
ErrItem(path) == [ok |-> FALSE, path |-> path]
\* The error of the entry `entry` of the directory `path`.
EntryErrItem(path, entry) == [ok |-> FALSE, path |-> path, entry |-> entry]

\* Number of entries below "/" in a tree the walker is run on.
WalkEntries == 3

\* The items of one walk: a walk that pops each object of the tree once
\* yields no more.
MaxItems == Cardinality(DOMAIN fs)

SkipDirSets == {{}, {"a"}}

SkipPrefixSets == {{}, {<<"b">>}, {<<"a", "b">>}}

\* Find::new: the root's Meta is pushed unless it is to be omitted.
find_new(root) ==
    LET meta == from_path(root).meta
    IN  IF est_omittendus(meta) THEN <<>> ELSE <<meta>>

WalkInit ==
    /\ fs \in Trees(WalkEntries)
    /\ root_path \in DOMAIN fs
    /\ skip_dirs \in SkipDirSets
    /\ skip_prefixes \in SkipPrefixSets
    /\ frontier = find_new(root_path)
    /\ out = <<>>
    /\ ended = FALSE

WalkConfigUnchanged ==
    UNCHANGED <<fs, root_path, skip_dirs, skip_prefixes, notWalk>>

\* next(), lines 234-267: the popped Meta is yielded; if it is a directory
\* its entries were read, in some order, and pushed.
WalkYield ==
    /\ frontier # <<>>
    /\ ~ended
    /\ Len(out) < MaxItems
    /\ LET meta == frontier_pop(frontier).meta
           rest == frontier_pop(frontier).rest
       IN  /\ IF is_directory(meta)
              THEN /\ read_dir(meta.path).ok
                   /\ \A e \in read_dir(meta.path).entries : from_dir_entry(e).ok
                   /\ \E order \in Orders(read_dir(meta.path).entries) :
                         frontier' = rest \o pushed(order)
              ELSE frontier' = rest
           /\ out' = Append(out, OkItem(meta))
    /\ UNCHANGED ended
    /\ WalkConfigUnchanged

\* next(), lines 245-247: read_dir of the popped directory fails.
WalkReadDirErr ==
    /\ frontier # <<>>
    /\ ~ended
    /\ Len(out) < MaxItems
    /\ LET meta == frontier_pop(frontier).meta
           rest == frontier_pop(frontier).rest
       IN  /\ is_directory(meta)
           /\ frontier' = rest
           /\ out' = Append(out, ErrItem(meta.path))
    /\ UNCHANGED ended
    /\ WalkConfigUnchanged

\* next(), lines 249-261: the k-th entry cannot be read, or its metadata
\* cannot: the entries before it have been pushed, the error is returned.
WalkEntryErr ==
    /\ frontier # <<>>
    /\ ~ended
    /\ Len(out) < MaxItems
    /\ LET meta == frontier_pop(frontier).meta
           rest == frontier_pop(frontier).rest
       IN  /\ is_directory(meta)
           /\ read_dir(meta.path).ok
           /\ \E order \in Orders(read_dir(meta.path).entries) :
                 \E k \in 1..Len(order) :
                     /\ \A i \in 1..(k - 1) : from_dir_entry(order[i]).ok
                     /\ frontier' = rest \o pushed(SubSeq(order, 1, k - 1))
                     /\ out' = Append(out, EntryErrItem(meta.path, order[k]))
    /\ UNCHANGED ended
    /\ WalkConfigUnchanged

\* next(), line 234: the frontier is empty, the stream ends.
WalkEnd ==
    /\ frontier = <<>>
    /\ ~ended
    /\ ended' = TRUE
    /\ UNCHANGED <<frontier, out>>
    /\ WalkConfigUnchanged

WalkNext == WalkYield \/ WalkReadDirErr \/ WalkEntryErr \/ WalkEnd

InitWalk == WalkInit /\ DupsIdle /\ TopIdle /\ SortIdle /\ LoopsIdle /\ DangIdle /\ IoIdle
    /\ NormIdle /\ ParIdle /\ CycIdle

SpecWalk == InitWalk /\ [][WalkNext]_vars

\* Whoever drives the iterator keeps calling next() until it returns None.
SpecWalkFair == SpecWalk /\ WF_vars(WalkNext)

(***************************************************************************)
(* Properties of dups.                                                     *)
(***************************************************************************)
\* The positions of the GroupList at which path p appears.
Occurrences(gs, p) ==
    {x \in UNION {{<<g, i>> : i \in 1..Len(gs[g])} : g \in 1..Len(gs)} :
        gs[x[1]][x[2]].path = p}

\* Another regular file of the listing has the same content as p.
HasTwin(p) ==
    \E q \in 1..Len(entries) :
        q # p /\ entries[q].typ = "Regular" /\ entries[q].bytes = entries[p].bytes

\* What the grouper `name` computes for p when its reads succeed.
Discriminator(name, p) ==
    grouper(name, MetaOf(p), sample_size, chunk_size, {})

\* The GroupList without the members whose path is in F.
Without(gs, F) ==
    [g \in 1..Len(gs) |-> SelectSeq(gs[g], LAMBDA m : m.path \notin F)]

\* C1: once the whole pipeline has run, a regular file of positive size is
\* in exactly one output group iff another regular file under the root has
\* the same content, and in no group otherwise.
C1_InOneGroupIffIdenticalTwin ==
    dstatus = "done" =>
        \A p \in 1..Len(entries) :
            (entries[p].typ = "Regular" /\ Len(entries[p].bytes) > 0) =>
                Cardinality(Occurrences(groups, p)) = (IF HasTwin(p) THEN 1 ELSE 0)

\* C2: after every pass every group has at least two members, and all
\* members of a group have the same discriminator for that pass and for
\* every earlier pass.
C2_GroupsShareDiscriminators ==
    (dstatus \in {"refining", "done"} /\ pass >= 1) =>
        \A g \in 1..Len(groups) :
            /\ Len(groups[g]) >= 2
            /\ \A k \in 1..pass :
                  LET ids == {Discriminator(Pipeline[k], m.path) : m \in Range(groups[g])}
                  IN  Cardinality(ids) = 1 /\ \A r \in ids : r.kind = "Ok"

\* Two groups have survived all six passes.
C2_Witness ==
    /\ dstatus = "done"
    /\ pass = 6
    /\ Len(groups) = 2

\* C10: whatever --sample and --chunk are, a member whose discriminator
\* cannot be computed never fails the pass: refine returns Ok, the member
\* is in no output group, and the other members are partitioned as if it
\* had not been in the input.
C10_MemberFailureNeverFailsPass ==
    pass >= 1 =>
        /\ dstatus # "panicked"
        /\ \A p \in failed : Occurrences(groups, p) = {}
        /\ groups = refine(Without(prev, failed),
                           results(Pipeline[pass], Without(prev, failed), {}))

\* The part of C10 that does hold: a pass that returns Ok has dropped the
\* failing members and nothing else.
C10_DropsOnlyFailingMembers ==
    (pass >= 1 /\ dstatus # "panicked") =>
        /\ \A p \in failed : Occurrences(groups, p) = {}
        /\ groups = refine(Without(prev, failed),
                           results(Pipeline[pass], Without(prev, failed), {}))

\* A GroupList as a set of groups, each group as the set of its paths.
AsSets(gs) == {{m.path : m \in Range(gs[g])} : g \in 1..Len(gs)}

AllGroupers == {"size", "head", "mid", "xxh", "blake3", "sha2_512"}

\* The pass `name` applied to gs, with `bad` the paths whose reads fail
\* whenever the pass reads them.
apply_pass(name, gs, bad) == refine(gs, results(name, gs, bad))

\* The sets of paths whose reads fail, for the passes applied twice.
BadSets == {{}} \union {{p} : p \in 1..Len(entries)}

\* C14: for every GroupList G the command reaches and every pass p whose
\* discriminator is a function of the file (its reads succeed both times
\* or fail both times, and it does not panic), refine(p, refine(p, G))
\* equals refine(p, G) as a set of groups.
C14_RefineIdempotent ==
    dstatus \in {"refining", "done"} =>
        \A name \in AllGroupers :
            \A bad \in BadSets :
                ~panics(results(name, groups, bad)) =>
                    \A once \in {apply_pass(name, groups, bad)} :
                        AsSets(apply_pass(name, once, bad)) = AsSets(once)

\* A GroupList with a group of three or more that some pass splits and
\* does not empty.
C14_Witness ==
    /\ dstatus = "refining"
    /\ \E g \in 1..Len(groups) : Len(groups[g]) >= 3
    /\ \E name \in AllGroupers :
          /\ ~panics(results(name, groups, {}))
          /\ AsSets(apply_pass(name, groups, {})) # AsSets(groups)
          /\ AsSets(apply_pass(name, groups, {})) # {}

\* C15: after every pass each group is a part of one group of the
\* GroupList the pass was given: no file is introduced and no two files
\* of different groups are brought together.
C15_PassOnlyShrinks ==
    pass >= 1 =>
        \A g \in 1..Len(groups) :
            \E h \in 1..Len(prev) : Range(groups[g]) \subseteq Range(prev[h])

\* A pass given two groups or more that dropped files and kept a group.
C15_Witness ==
    /\ pass >= 2
    /\ Len(prev) >= 2
    /\ groups # <<>>
    /\ Members(groups) # Members(prev)

\* The regular files of positive size of the listing.
Candidates ==
    {p \in 1..Len(entries) : entries[p].typ = "Regular" /\ Len(entries[p].bytes) > 0}

\* The paths of the reported groups.
Reported == {m.path : m \in Members(groups)}

\* C17: no file of size 0 is in an output group, and no file whose content
\* is unique under the root is in an output group.
C17_NoEmptyNoUnique ==
    dstatus = "done" =>
        \A p \in Reported :
            /\ Len(entries[p].bytes) > 0
            /\ HasTwin(p)

\* The half of C17 that the pipeline keeps: only regular files of positive
\* size are reported, in groups of two or more.
C17_NoEmptyNoSingle ==
    dstatus = "done" =>
        /\ Reported \subseteq Candidates
        /\ \A g \in 1..Len(groups) : Len(groups[g]) >= 2

\* p and q have the same size, head sample and mid sample.
SameSamples(p, q) ==
    \A name \in {"size", "head", "mid"} :
        /\ Discriminator(name, p).kind = "Ok"
        /\ Discriminator(name, p) = Discriminator(name, q)

\* C11: a full-content hash is invoked on a file only if the file is in a
\* group of at least 2 that survived the size, head and mid passes: another
\* file has the same size, head sample and mid sample.  Two files of equal
\* size whose heads differ, and that match no other file, are never hashed.
C11_HashOnlySurvivors ==
    \A p \in hashed :
        /\ p \in Candidates
        /\ \E q \in Candidates \ {p} : SameSamples(p, q)

\* A finished run that hashed some files and never hashed two files of
\* equal size whose head samples differ.
C11_Witness ==
    /\ dstatus = "done"
    /\ hashed # {}
    /\ \E p, q \in Candidates \ hashed :
          /\ p # q
          /\ Discriminator("size", p) = Discriminator("size", q)
          /\ Discriminator("head", p) # Discriminator("head", q)

(***************************************************************************)
(* Properties of the walker.                                               *)
(***************************************************************************)
\* The Metas the walk has yielded so far.
Yielded == {out[i].meta : i \in {j \in 1..Len(out) : out[j].ok}}

\* A directory named by a skip-name is the k-th ancestor-or-self of path.
SkipNamedAt(path, k) ==
    /\ path[k] \in skip_dirs
    /\ fs[SubSeq(path, 1, k)].typ = "Directory"

\* C3 (as stated): the walker never yields a Meta whose path has a
\* skip-prefix as a component-wise prefix, and never yields a directory
\* whose base-name is a skip-name nor any entry beneath such a directory,
\* wherever in the path that directory is.
C3_NeverYieldsSkipped ==
    \A m \in Yielded :
        /\ ~(\E prefix \in skip_prefixes : starts_with(m.path, prefix))
        /\ ~(\E k \in 1..Len(m.path) : SkipNamedAt(m.path, k))

\* C3 (amended): the walker never yields a Meta whose path has a
\* skip-prefix as a component-wise prefix, and never yields a directory
\* at or below the root whose base-name is a skip-name nor any entry
\* beneath such a directory; directories above the root are not examined.
C3_NeverYieldsSkippedBelowRoot ==
    \A m \in Yielded :
        /\ ~(\E prefix \in skip_prefixes : starts_with(m.path, prefix))
        /\ ~(\E k \in 1..Len(m.path) :
                k >= Len(root_path) /\ SkipNamedAt(m.path, k))

\* A finished walk of a root that holds a non-empty directory with a
\* skip-name and an entry under a skip-prefix, and that yielded something.
C3_Witness ==
    /\ ended
    /\ Yielded # {}
    /\ \E d \in DOMAIN fs :
          /\ Len(d) > Len(root_path)
          /\ starts_with(d, root_path)
          /\ SkipNamedAt(d, Len(d))
          /\ \E nm \in Names : Append(d, nm) \in DOMAIN fs
    /\ \E e \in DOMAIN fs :
          /\ starts_with(e, root_path)
          /\ est_omittendus_praefixo(e)

\* The error items of the walk that report a failed entry.
EntryErrors ==
    {i \in 1..Len(out) : ~out[i].ok /\ "entry" \in DOMAIN out[i]}

\* The entries of the directory of error item i that the walk should still
\* yield: the readable ones that no skip rule omits.
Remaining(i) ==
    {e \in read_dir(out[i].path).entries \ {out[i].entry} :
        ~est_omittendus(from_dir_entry(e).meta)}

\* C13: after an error item the stream does not end while the frontier
\* holds a Meta, and once it has ended the remaining readable entries of
\* every directory in which one entry failed have been yielded.
C13_RecoversAndContinues ==
    /\ ended => frontier = <<>>
    /\ ended =>
          \A i \in EntryErrors :
              \A e \in Remaining(i) : \E m \in Yielded : m.path = e

\* C4: on every tree, also with symlinks that form cycles or point to
\* their own ancestors, repeated calls of next() eventually return None.
C4_WalkTerminates == <>ended

\* A finished walk that yielded a symlink on a symlink cycle and a
\* symlink that points to one of its own ancestors.
C4_Witness ==
    /\ ended
    /\ \E m \in Yielded :
          /\ is_symlink(m)
          /\ ~stat(m.path).ok
          /\ stat(m.path).errno = "ELOOP"
    /\ \E m \in Yielded :
          /\ is_symlink(m)
          /\ stat(m.path).ok
          /\ fs[stat(m.path).real].typ = "Directory"
          /\ starts_with(m.path, stat(m.path).real)

\* The Metas the walker has pushed or yielded so far.
Handled == Yielded \union Range(frontier)

\* C21: the walker enumerates a popped Meta only if its type, as lstat
\* gives it, is Directory: every Meta pushed or yielded names an object of
\* the tree by its real path with that object's own type, so a symlink to
\* a directory is a Symlink and nothing is pushed or yielded below it.
C21_NeverFollowsLinks ==
    \A m \in Handled :
        /\ m.path \in DOMAIN fs
        /\ m.typ = fs[m.path].typ
        /\ \A l \in Handled :
              (is_symlink(l) /\ starts_with(m.path, l.path)) => m.path = l.path

\* A finished walk that yielded a symlink to a directory with an entry.
C21_Witness ==
    /\ ended
    /\ \E m \in Yielded :
          /\ is_symlink(m)
          /\ stat(m.path).ok
          /\ fs[stat(m.path).real].typ = "Directory"
          /\ \E nm \in Names : Append(stat(m.path).real, nm) \in DOMAIN fs

\* Paths of Metas that were pushed on the frontier: the root unless
\* omitted, the entries that no rule omits of every directory yielded, and
\* every directory whose enumeration was tried and failed.
PushedPaths ==
    {m.path : m \in Range(find_new(root_path))}
        \union UNION {{e \in read_dir(m.path).entries :
                          ~est_omittendus(from_dir_entry(e).meta)} :
                      m \in {d \in Yielded : is_directory(d)}}
        \union {out[i].path : i \in {j \in 1..Len(out) : ~out[j].ok}}

\* How many Ok items of the stream carry the path p.
TimesYielded(p) ==
    Cardinality({i \in 1..Len(out) : out[i].ok /\ out[i].meta.path = p})

\* C22: once the stream has ended, every Meta that was pushed on the
\* frontier has appeared exactly once as an Ok item, a directory whose
\* enumeration produced an error included.
C22_PushedIsYieldedOnce ==
    ended => \A p \in PushedPaths : TimesYielded(p) = 1

\* The part of C22 that the walker keeps: what it yields it yields once,
\* and a walk without errors yields everything it pushed.
C22_YieldedOnceUnlessError ==
    /\ \A m \in Yielded : TimesYielded(m.path) = 1
    /\ (ended /\ \A i \in 1..Len(out) : out[i].ok) =>
          \A p \in PushedPaths : TimesYielded(p) = 1

\* The path item i of the stream is about.
ItemPath(i) == IF out[i].ok THEN out[i].meta.path ELSE out[i].path

\* q lies strictly below p.
Below(q, p) == starts_with(q, p) /\ q # p

\* The directories at or below the root that lie strictly above path q.
DirsAbove(q) ==
    {SubSeq(q, 1, n) : n \in Len(root_path)..(Len(q) - 1)}

\* C23: the walk is depth-first pre-order: a directory is yielded before
\* every one of its descendants, and the items of the subtree of a yielded
\* entry are contiguous in the stream.
C23_DepthFirstPreOrder ==
    /\ \A k \in 1..Len(out) :
          out[k].ok =>
              \A d \in DirsAbove(ItemPath(k)) :
                  \E i \in 1..(k - 1) : out[i].ok /\ ItemPath(i) = d
    /\ \A i, k \in 1..Len(out) :
          (out[i].ok /\ Below(ItemPath(k), ItemPath(i))) =>
              \A j \in (i + 1)..(k - 1) : Below(ItemPath(j), ItemPath(i))

\* The part of C23 that the walker keeps: a directory that is yielded
\* comes before everything yielded below it, and the items of its subtree
\* are contiguous.
C23_YieldedInPreOrder ==
    \A i, k \in 1..Len(out) :
        (out[i].ok /\ Below(ItemPath(k), ItemPath(i))) =>
            /\ i < k
            /\ \A j \in (i + 1)..(k - 1) : Below(ItemPath(j), ItemPath(i))

\* The omission rule as the two SkipRules state it, for the object at the
\* real path p.
Omitted(p) ==
    \/ \E prefix \in skip_prefixes :
          /\ Len(prefix) <= Len(p)
          /\ \A n \in 1..Len(prefix) : p[n] = prefix[n]
    \/ /\ fs[p].typ = "Directory"
       /\ p # <<>>
       /\ p[Len(p)] \in skip_dirs

\* The paths the walker has taken up: pushed, yielded, or popped with an
\* error.
TakenUp == {m.path : m \in Handled} \union {ItemPath(i) : i \in 1..Len(out)}

\* C24: a candidate Meta (the root, an entry of an enumerated directory)
\* is omitted iff a skip-prefix is a component-wise prefix of its path or
\* it is a Directory whose base-name is a skip-name; files and symlinks
\* with a skip-name are taken up, and an omitted root gives an empty walk.
C24_OmittedIffRuleMatches ==
    /\ Omitted(root_path) <=> (root_path \notin TakenUp)
    /\ Omitted(root_path) => (out = <<>> /\ frontier = <<>>)
    /\ \A d \in Yielded :
          is_directory(d) =>
              \A e \in read_dir(d.path).entries :
                  Omitted(e) <=> (e \notin TakenUp)

\* A finished walk that yielded a file or symlink whose base-name is a
\* skip-name and omitted a directory with that name.
C24_Witness ==
    /\ ended
    /\ \E m \in Yielded :
          /\ ~is_directory(m)
          /\ m.path # <<>>
          /\ m.path[Len(m.path)] \in skip_dirs
    /\ \E d \in Yielded :
          /\ is_directory(d)
          /\ \E e \in read_dir(d.path).entries :
                /\ fs[e].typ = "Directory"
                /\ e[Len(e)] \in skip_dirs
                /\ e \notin TakenUp

(***************************************************************************)
(* top: count_dir_sizes, one task per file on the thread pool.             *)
(***************************************************************************)
\* Number of entries below "/" in a tree whose sizes are aggregated.
TopEntries == 4

FileSizes == {1, 2}

RegularFiles(t) == {f \in DOMAIN t : t[f].typ = "Regular"}

\* The trees without symlinks (Meta::from_fs_metadata gives them no size
\* that top would count).
PlainTrees(n) == {t \in Trees(n) : \A f \in DOMAIN t : t[f].typ # "Symlink"}

\* file.ancestors().skip(1): the k-th proper ancestor, nearest first.
ancestor(file, k) == SubSeq(file, 1, Len(file) - k)

\* The task of `file` has gone through all the ancestors.
finished(file) == cursor[file] >= Len(file)

\* An enumeration of ancestors that starts with the file itself.
dir_at_with_self(file) == ancestor(file, cursor[file])

\* The directory the task of `file` is at.
dir_at(file) == ancestor(file, cursor[file] + 1)

\* Every update of any task to the entry of `dir` is complete at once.
entry_free_ignored(dir) == TRUE

\* DashMap::entry blocks while another task holds the entry of `dir`.
entry_free(dir) == \A g \in held : dir_at(g) # dir

\* or_insert(0): the value of the entry, inserted as 0 if absent.
or_insert(map, dir) == IF dir \in DOMAIN map THEN map ELSE map @@ (dir :> 0)

TopInit ==
    /\ \E t \in PlainTrees(TopEntries) :
          /\ files \in [RegularFiles(t) -> FileSizes]
          /\ top_root \in DOMAIN t
    /\ cursor = [f \in DOMAIN files |-> 0]
    /\ held = {}
    /\ local = [f \in DOMAIN files |-> 0]
    /\ dirs = <<>>
    /\ tstatus = "running"

TopConfigUnchanged == UNCHANGED <<files, top_root, notTop>>

\* Line 81, false branch: the ancestor is above the requested root.
TopSkip(file) ==
    /\ tstatus = "running"
    /\ file \notin held
    /\ ~finished(file)
    /\ ~starts_with(dir_at(file), top_root)
    /\ cursor' = [cursor EXCEPT ![file] = @ + 1]
    /\ UNCHANGED <<held, local, dirs, tstatus>>
    /\ TopConfigUnchanged

\* Line 82, dirs.entry(dir).or_insert(0): take the entry, read its value.
TopAcquire(file) ==
    /\ tstatus = "running"
    /\ file \notin held
    /\ ~finished(file)
    /\ starts_with(dir_at(file), top_root)
    /\ entry_free(dir_at(file))
    /\ held' = held \union {file}
    /\ dirs' = or_insert(dirs, dir_at(file))
    /\ local' = [local EXCEPT ![file] = dirs'[dir_at(file)]]
    /\ UNCHANGED <<cursor, tstatus>>
    /\ TopConfigUnchanged

\* Line 82, `+= size`: store the sum, give the entry back, go to the next
\* ancestor.
TopRelease(file) ==
    /\ tstatus = "running"
    /\ file \in held
    /\ dirs' = [dirs EXCEPT ![dir_at(file)] = local[file] + files[file]]
    /\ held' = held \ {file}
    /\ cursor' = [cursor EXCEPT ![file] = @ + 1]
    /\ UNCHANGED <<local, tstatus>>
    /\ TopConfigUnchanged

\* Line 86: for_each has returned, the map is handed over.
TopCollect ==
    /\ tstatus = "running"
    /\ \A f \in DOMAIN files : finished(f)
    /\ tstatus' = "done"
    /\ UNCHANGED <<cursor, held, local, dirs>>
    /\ TopConfigUnchanged

TopNext ==
    \/ \E f \in DOMAIN files : TopSkip(f)
    \/ \E f \in DOMAIN files : TopAcquire(f)
    \/ \E f \in DOMAIN files : TopRelease(f)
    \/ TopCollect

InitTop == TopInit /\ DupsIdle /\ WalkIdle /\ SortIdle /\ LoopsIdle /\ DangIdle /\ IoIdle
    /\ NormIdle /\ ParIdle /\ CycIdle

SpecTop == InitTop /\ [][TopNext]_vars

RECURSIVE Sum(_, _)
Sum(f, S) ==
    IF S = {} THEN 0
    ELSE LET x == CHOOSE y \in S : TRUE IN f[x] + Sum(f, S \ {x})

\* The files that have d as a strict ancestor.
Beneath(d) == {f \in DOMAIN files : Len(f) > Len(d) /\ starts_with(f, d)}

\* C5: under every interleaving of the per-file tasks, the final value of
\* every directory d of the output is the sum of the sizes of the regular
\* files that have d as a strict ancestor and lie under the root; the
\* output holds exactly the directories at or below the root that have
\* such a file.
C5_SumsExact ==
    tstatus = "done" =>
        /\ \A d \in DOMAIN dirs :
              /\ starts_with(d, top_root)
              /\ dirs[d] = Sum(files, Beneath(d))
        /\ \A f \in DOMAIN files :
              \A k \in 1..Len(f) :
                  starts_with(ancestor(f, k), top_root) => ancestor(f, k) \in DOMAIN dirs

\* A finished aggregation in which two tasks added to one key, below a
\* root that is not "/" and beside a file that is not under the root.
C5_Witness ==
    /\ tstatus = "done"
    /\ Len(top_root) > 0
    /\ \E d \in DOMAIN dirs : Cardinality(Beneath(d)) >= 2
    /\ \E f \in DOMAIN files : ~starts_with(f, top_root)

\* The strict ancestors of the input files that start with the root.
AncestorsUnderRoot ==
    {d \in UNION {{ancestor(f, k) : k \in 1..Len(f)} : f \in DOMAIN files} :
        starts_with(d, top_root)}

\* C25: the keys of the output are exactly the strict ancestors of the
\* input files that start with the requested root: no input file is a key,
\* no path above the root is a key, and the root is a key, with the total
\* of the files beneath it, whenever a file lies beneath it.
C25_KeysAreAncestorsUnderRoot ==
    tstatus = "done" =>
        /\ DOMAIN dirs = AncestorsUnderRoot
        /\ DOMAIN dirs \cap DOMAIN files = {}
        /\ \A d \in DOMAIN dirs : Len(d) >= Len(top_root)
        /\ Beneath(top_root) # {} =>
              /\ top_root \in DOMAIN dirs
              /\ dirs[top_root] = Sum(files, Beneath(top_root))

\* A finished aggregation under a root other than "/" whose output holds
\* the root and a directory below it.
C25_Witness ==
    /\ tstatus = "done"
    /\ top_root # <<>>
    /\ top_root \in DOMAIN dirs
    /\ \E d \in DOMAIN dirs : d # top_root

(***************************************************************************)
(* top: sort, the ranker.                                                  *)
(***************************************************************************)
\* Longest input of the ranker.
MaxPairs == 3

SortPaths == {<<"a">>, <<"b">>}

SortSizes == {0, 1, 2}

None == [some |-> FALSE]
Some(n) == [some |-> TRUE, n |-> n]

Limits == {None} \union {Some(n) : n \in 0..(MaxPairs + 1)}

\* One step of the stable sort: x goes behind the elements that are not
\* smaller, so that equal sizes keep their input order.
insert_desc(sorted, x) ==
    LET k == Cardinality({i \in 1..Len(sorted) : sorted[i].size >= x.size})
    IN  SubSeq(sorted, 1, k) \o <<x>> \o SubSeq(sorted, k + 1, Len(sorted))

insert_asc(sorted, x) ==
    LET k == Cardinality({i \in 1..Len(sorted) : sorted[i].size <= x.size})
    IN  SubSeq(sorted, 1, k) \o <<x>> \o SubSeq(sorted, k + 1, Len(sorted))

\* sizes.sort_by(|a, b| a.1.cmp(&b.1)): smallest on top.
RECURSIVE sort_by_ascending(_)
sort_by_ascending(sizes) ==
    IF sizes = <<>> THEN <<>>
    ELSE insert_asc(sort_by_ascending(SubSeq(sizes, 1, Len(sizes) - 1)),
                    sizes[Len(sizes)])

\* sizes.sort_by(|a, b| b.1.cmp(&a.1)): largest on top, stable.
RECURSIVE sort_by(_)
sort_by(sizes) ==
    IF sizes = <<>> THEN <<>>
    ELSE insert_desc(sort_by(SubSeq(sizes, 1, Len(sizes) - 1)),
                     sizes[Len(sizes)])

\* into_iter().take(n).collect()
take(sizes, n) == SubSeq(sizes, 1, Min(n, Len(sizes)))

\* sizes.reverse()
reverse(sizes) == [i \in 1..Len(sizes) |-> sizes[Len(sizes) + 1 - i]]

sort(sizes, limit) ==
    LET sorted == sort_by(sizes)
        taken == IF limit.some THEN take(sorted, limit.n) ELSE sorted
    IN  reverse(taken)

SortInit ==
    /\ sort_input \in SeqsUpTo([path : SortPaths, size : SortSizes], MaxPairs)
    /\ report_limit \in Limits
    /\ ranked = <<>>
    /\ sstatus = "given"

Rank ==
    /\ sstatus = "given"
    /\ ranked' = sort(sort_input, report_limit)
    /\ sstatus' = "ranked"
    /\ UNCHANGED <<sort_input, report_limit, notSort>>

SortNext == Rank

InitSort == SortInit /\ DupsIdle /\ WalkIdle /\ TopIdle /\ LoopsIdle /\ DangIdle /\ IoIdle
    /\ NormIdle /\ ParIdle /\ CycIdle

SpecSort == InitSort /\ [][SortNext]_vars

IsDescending(v) == \A i, j \in 1..Len(v) : i < j => v[i].size >= v[j].size

Suffix(v, n) == SubSeq(v, Len(v) - n + 1, Len(v))

\* C9: the output without limit, read in reverse, is sorted by size
\* descending, and the output with limit n is the suffix of length
\* min(n, |input|) of the output without limit for the same input.
C9_RankedIsSuffix ==
    sstatus = "ranked" =>
        LET full == sort(sort_input, None)
        IN  /\ IsDescending(reverse(full))
            /\ Len(full) = Len(sort_input)
            /\ IF report_limit.some
               THEN ranked = Suffix(full, Min(report_limit.n, Len(sort_input)))
               ELSE ranked = full

\* A ranking that cut an input with a tie and two different sizes.
C9_Witness ==
    /\ sstatus = "ranked"
    /\ Len(sort_input) = 3
    /\ report_limit = Some(2)
    /\ Len(ranked) = 2
    /\ Cardinality({sort_input[i].size : i \in 1..3}) = 2

(***************************************************************************)
(* loops: the symlink cycle detector.                                      *)
(***************************************************************************)
\* Number of entries below "/" in a tree that is searched for loops.
LoopEntries == 4

\* The Metas of the entries `paths`, in this order.
metas_of(paths) == [i \in 1..Len(paths) |-> from_dir_entry(paths[i]).meta]

\* find_cycling_inode from the state (visited, frontier) of its while
\* loop: the set of values it can return, one per order in which the
\* directories it reads list their entries.
RECURSIVE detect(_, _)
detect(visited, stack) ==
    IF stack = <<>> THEN {None}
    ELSE LET current == stack[Len(stack)]
             rest == SubSeq(stack, 1, Len(stack) - 1)
             seen == visited \union {current.ino}
         IN  IF current.ino \in visited THEN {Some(current.ino)}
             ELSE CASE is_symlink(current) ->
                         LET dst == normalize(parent(current.path), current.dst)
                             target == from_path(dst)
                         IN  detect(seen, IF target.ok THEN Append(rest, target.meta)
                                          ELSE rest)
                    [] is_directory(current) ->
                         UNION {detect(seen, rest \o metas_of(order)) :
                                order \in Orders(read_dir(current.path).entries)}
                    [] OTHER -> detect(seen, rest)

\* A detector that reports the inode of the symlink it started from.
find_cycling_inode_entry(entry_path) ==
    {IF r.some THEN Some(entry_path.ino) ELSE r : r \in detect({}, <<entry_path>>)}

find_cycling_inode(entry_path) == detect({}, <<entry_path>>)

\* index.entry(inode).or_default().insert(path)
index_insert(map, inode, path) ==
    IF inode \in DOMAIN map THEN [map EXCEPT ![inode] = @ \union {path}]
    ELSE map @@ (inode :> {path})

\* Cmd::run canonicalizes the root, find walks it without skip rules.
LoopsInit ==
    /\ fs \in Trees(LoopEntries)
    /\ root_path \in {p \in DOMAIN fs : fs[p].typ # "Symlink"}
    /\ skip_dirs = {}
    /\ skip_prefixes = {}
    /\ frontier = find_new(root_path)
    /\ out = <<>>
    /\ ended = FALSE
    /\ loops_consumed = 0
    /\ index = <<>>
    /\ verdicts = <<>>
    /\ lstatus = "running"

\* Line 39: the for loop asks the walker for its next item.
LoopsPull ==
    /\ lstatus = "running"
    /\ loops_consumed = Len(out)
    /\ WalkNext

\* Lines 40-41: errors and everything that is not a symlink is filtered out.
LoopsFilter ==
    /\ lstatus = "running"
    /\ loops_consumed < Len(out)
    /\ LET item == out[loops_consumed + 1]
       IN  ~(item.ok /\ is_symlink(item.meta))
    /\ loops_consumed' = loops_consumed + 1
    /\ UNCHANGED <<index, verdicts, lstatus, walkVars, notLoops>>

\* Lines 43-48: the body of the for loop, for one symlink.
LoopsDetect ==
    /\ lstatus = "running"
    /\ loops_consumed < Len(out)
    /\ LET item == out[loops_consumed + 1]
       IN  /\ item.ok
           /\ is_symlink(item.meta)
           /\ \E r \in find_cycling_inode(item.meta) :
                 /\ verdicts' = Append(verdicts, [link |-> item.meta.path, result |-> r])
                 /\ index' = IF r.some THEN index_insert(index, r.n, item.meta.path)
                              ELSE index
    /\ loops_consumed' = loops_consumed + 1
    /\ UNCHANGED <<lstatus, walkVars, notLoops>>

\* Lines 50-55: the walk is over, the groups are printed.
LoopsPrint ==
    /\ lstatus = "running"
    /\ ended
    /\ loops_consumed = Len(out)
    /\ lstatus' = "done"
    /\ UNCHANGED <<loops_consumed, index, verdicts, walkVars, notLoops>>

LoopsNext == LoopsPull \/ LoopsFilter \/ LoopsDetect \/ LoopsPrint

InitLoops == LoopsInit /\ DupsIdle /\ TopIdle /\ SortIdle /\ DangIdle /\ IoIdle
    /\ NormIdle /\ ParIdle /\ CycIdle

SpecLoops == InitLoops /\ [][LoopsNext]_vars

\* What find_cycling_inode returns when `?` passes an I/O error on.
Failed == [err |-> TRUE]

\* find_cycling_inode when reading a directory can fail: as detect, and
\* wherever a directory is enumerated (lines 89-96) read_dir, an entry or
\* its metadata may fail, which `?` returns to the caller.
RECURSIVE detect_io(_, _)
detect_io(visited, stack) ==
    IF stack = <<>> THEN {None}
    ELSE LET current == stack[Len(stack)]
             rest == SubSeq(stack, 1, Len(stack) - 1)
             seen == visited \union {current.ino}
         IN  IF current.ino \in visited THEN {Some(current.ino)}
             ELSE CASE is_symlink(current) ->
                         LET dst == normalize(parent(current.path), current.dst)
                             target == from_path(dst)
                         IN  detect_io(seen, IF target.ok THEN Append(rest, target.meta)
                                             ELSE rest)
                    [] is_directory(current) ->
                         {Failed} \union
                         UNION {detect_io(seen, rest \o metas_of(order)) :
                                order \in Orders(read_dir(current.path).entries)}
                    [] OTHER -> detect_io(seen, rest)

\* Line 43, `find_cycling_inode(&link_meta)?` returning early: the error
\* leaves loops, nothing is printed.
LoopsDetectErr ==
    /\ lstatus = "running"
    /\ loops_consumed < Len(out)
    /\ LET item == out[loops_consumed + 1]
       IN  /\ item.ok
           /\ is_symlink(item.meta)
           /\ Failed \in detect_io({}, <<item.meta>>)
    /\ loops_consumed' = loops_consumed + 1
    /\ lstatus' = "failed"
    /\ UNCHANGED <<index, verdicts, walkVars, notLoops>>

LoopsIONext == LoopsNext \/ LoopsDetectErr

SpecLoopsIO == InitLoops /\ [][LoopsIONext]_vars

(***************************************************************************)
(* Properties of loops.                                                    *)
(***************************************************************************)
\* The graph the detector searches: a symlink has an edge to the object
\* its target names, a directory to each of its entries.
Edges(p) ==
    CASE fs[p].typ = "Symlink" ->
            LET target == lstat(normalize(parent(p), fs[p].dst))
            IN  IF target.ok THEN {target.real} ELSE {}
      [] fs[p].typ = "Directory" ->
            {Append(p, nm) : nm \in {x \in Names : Append(p, x) \in DOMAIN fs}}
      [] OTHER -> {}

\* Everything reachable from the objects S, S included.
RECURSIVE ReachFrom(_)
ReachFrom(S) ==
    LET more == S \union UNION {Edges(p) : p \in S}
    IN  IF more = S THEN S ELSE ReachFrom(more)

OnCycle(p) == p \in ReachFrom(Edges(p))

\* A cycle exists in the graph reachable from link.
HasCycle(link) == \E p \in ReachFrom({link}) : OnCycle(p)

\* C6: find_cycling_inode returns Some(inode) if a cycle exists in the
\* graph reachable from the link and None otherwise, in particular None
\* when the graph is acyclic although one object is reachable along two
\* paths.
C6_SomeIffCycle ==
    \A i \in 1..Len(verdicts) :
        verdicts[i].result.some <=> HasCycle(verdicts[i].link)

\* The half of C6 that the detector keeps: a reachable cycle is reported.
C6_CycleIsReported ==
    \A i \in 1..Len(verdicts) :
        HasCycle(verdicts[i].link) => verdicts[i].result.some

\* How many times the traversal from link can push the object p: once for
\* every object reachable from link with an edge to p, and once more if p
\* is the link itself, which starts on the frontier.
Pushes(link, p) ==
    Cardinality({u \in ReachFrom({link}) : p \in Edges(u)})
        + (IF p = link THEN 1 ELSE 0)

\* C16: every path in the index is a symlink the walker yielded, and the
\* inode it is grouped under belongs to an object the traversal from that
\* symlink reaches and pushes a second time, which is what popping it
\* when it is already in visited requires.
C16_EmittedAreRevisitingLinks ==
    \A k \in DOMAIN index :
        \A path \in index[k] :
            /\ \E m \in Yielded : m.path = path /\ is_symlink(m)
            /\ \E p \in ReachFrom({path}) :
                  /\ fs[p].ino = k
                  /\ Pushes(path, p) >= 2

\* The groups are printed, and one symlink is grouped under the inode of
\* another object.
C16_Witness ==
    /\ lstatus = "done"
    /\ \E k \in DOMAIN index : \E path \in index[k] : fs[path].ino # k

\* The edges between symlinks only.
LinkEdges(p) ==
    IF fs[p].typ = "Symlink" THEN {q \in Edges(p) : fs[q].typ = "Symlink"} ELSE {}

RECURSIVE LinksFrom(_)
LinksFrom(S) ==
    LET more == S \union UNION {LinkEdges(p) : p \in S}
    IN  IF more = S THEN S ELSE LinksFrom(more)

\* Two symlinks that lie on the same symlink cycle.
OnSameCycle(a, b) ==
    /\ b \in LinksFrom(LinkEdges(a))
    /\ a \in LinksFrom(LinkEdges(b))

\* The tree of scenario S3: a -> b and b -> a and nothing else.
TwoLinkCycle ==
    /\ root_path = <<>>
    /\ DOMAIN fs = {<<>>, <<"a">>, <<"b">>}
    /\ fs[<<"a">>].typ = "Symlink" /\ fs[<<"a">>].dst = <<"b">>
    /\ fs[<<"b">>].typ = "Symlink" /\ fs[<<"b">>].dst = <<"a">>

\* C7: when the walk met no error, symlinks on the same symlink cycle
\* are printed in one group; for a root with exactly a -> b and b -> a
\* there is exactly one group, and it holds both a and b.
C7_CycleIsOneGroup ==
    (lstatus = "done" /\ \A i \in 1..Len(out) : out[i].ok) =>
        /\ \A a, b \in {verdicts[i].link : i \in 1..Len(verdicts)} :
              OnSameCycle(a, b) => \E ino \in DOMAIN index : {a, b} \subseteq index[ino]
        /\ TwoLinkCycle =>
              /\ Cardinality(DOMAIN index) = 1
              /\ \A ino \in DOMAIN index : index[ino] = {<<"a">>, <<"b">>}

(***************************************************************************)
(* dang: the dangling-link probe.                                          *)
(***************************************************************************)
\* Number of entries below "/" in a tree that is probed.
DangEntries == 3

\* io::Error::kind of the error numbers.
kind(errno) == IF errno = "ENOENT" THEN "NotFound" ELSE "Other"

\* What src.canonicalize() can return: the resolution of every symlink of
\* the path, or the refusal of a directory on the way to be searched.
canonicalize(path) == {stat(path), Errno("EACCES")}

\* Every failure of canonicalize counts.
is_dangling_on_any_error(result) == ~result.ok

\* Lines 67-80: Ok(_) => false, NotFound => true, any other kind => false.
is_dangling(result) == ~result.ok /\ kind(result.errno) = "NotFound"

NotProbed == [ok |-> TRUE, real |-> <<"-">>]

\* The root is walked without skip rules.
DangInit ==
    /\ fs \in Trees(DangEntries)
    /\ root_path \in DOMAIN fs
    /\ skip_dirs = {}
    /\ skip_prefixes = {}
    /\ frontier = find_new(root_path)
    /\ out = <<>>
    /\ ended = FALSE
    /\ dang_consumed = 0
    /\ probes = <<>>
    /\ emitted = <<>>
    /\ gstatus = "running"

\* Line 51: the filters ask the stream of Metas for its next item.
DangPull ==
    /\ gstatus = "running"
    /\ dang_consumed = Len(out)
    /\ WalkNext

\* Lines 52-66: errors are logged and dropped, and so is everything that
\* is not a symlink.
DangFilter ==
    /\ gstatus = "running"
    /\ dang_consumed < Len(out)
    /\ LET item == out[dang_consumed + 1]
       IN  ~(item.ok /\ is_symlink(item.meta))
    /\ dang_consumed' = dang_consumed + 1
    /\ probes' = Append(probes, NotProbed)
    /\ UNCHANGED <<emitted, gstatus, walkVars, notDang>>

\* Lines 67-81 and 42-46: a symlink is probed, and printed if dangling.
DangProbe ==
    /\ gstatus = "running"
    /\ dang_consumed < Len(out)
    /\ LET item == out[dang_consumed + 1]
       IN  /\ item.ok
           /\ is_symlink(item.meta)
           /\ \E result \in canonicalize(item.meta.path) :
                 /\ probes' = Append(probes, result)
                 /\ emitted' = IF is_dangling(result)
                                THEN Append(emitted, item.meta.path)
                                ELSE emitted
    /\ dang_consumed' = dang_consumed + 1
    /\ UNCHANGED <<gstatus, walkVars, notDang>>

\* Line 48: the stream is exhausted.
DangEnd ==
    /\ gstatus = "running"
    /\ ended
    /\ dang_consumed = Len(out)
    /\ gstatus' = "done"
    /\ UNCHANGED <<dang_consumed, probes, emitted, walkVars, notDang>>

DangNext == DangPull \/ DangFilter \/ DangProbe \/ DangEnd

InitDang == DangInit /\ DupsIdle /\ TopIdle /\ SortIdle /\ LoopsIdle /\ IoIdle
    /\ NormIdle /\ ParIdle /\ CycIdle

SpecDang == InitDang /\ [][DangNext]_vars

\* The items taken so far that are a symlink the walker yielded and whose
\* canonicalize failed with kind NotFound.
NotFoundLinks ==
    {i \in 1..dang_consumed :
        /\ out[i].ok
        /\ is_symlink(out[i].meta)
        /\ ~probes[i].ok
        /\ probes[i].errno = "ENOENT"}

\* C8: dang emits a path iff the walker yielded it with type Symlink and
\* its canonicalize failed with kind NotFound; a symlink whose
\* canonicalize succeeds or fails with another kind, and a non-symlink,
\* is never emitted.
C8_EmitsIffNotFound ==
    /\ {emitted[k] : k \in 1..Len(emitted)} = {out[i].meta.path : i \in NotFoundLinks}
    /\ Len(emitted) = Cardinality(NotFoundLinks)
    /\ \A i \in 1..dang_consumed :
          (out[i].ok /\ is_symlink(out[i].meta)) =>
              (probes[i] \in canonicalize(out[i].meta.path))

\* A finished run that emitted a dangling link, held back a link on a
\* symlink cycle and dropped an entry that is not a symlink.
C8_Witness ==
    /\ gstatus = "done"
    /\ Len(emitted) = 1
    /\ \E i \in 1..dang_consumed : ~probes[i].ok /\ probes[i].errno = "ELOOP"
    /\ \E i \in 1..dang_consumed : out[i].ok /\ ~is_symlink(out[i].meta)

\* C12: a failure to read a directory or an entry inside a scan never
\* aborts the command; in loops, when enumerating a directory fails while
\* one symlink is examined, the remaining symlinks are still examined:
\* the command does not fail, and when it is done every symlink the walk
\* yielded has been examined.
C12_ScanErrorNeverAborts ==
    /\ lstatus # "failed"
    /\ lstatus = "done" =>
          \A i \in 1..Len(out) :
              (out[i].ok /\ is_symlink(out[i].meta)) =>
                  \E k \in 1..Len(verdicts) : verdicts[k].link = out[i].meta.path

\* The half of C12 that holds: the errors of the walk itself are dropped
\* by the filter and never make loops fail.
C12_WalkErrorsAreDropped ==
    (lstatus = "failed") =>
        /\ loops_consumed >= 1
        /\ out[loops_consumed].ok
        /\ is_symlink(out[loops_consumed].meta)

(***************************************************************************)
(* hash: one call of a streaming digester, read by read.                   *)
(***************************************************************************)
Digesters == {"xxh", "blake3", "sha2_512"}

\* The chunk sizes of the calls: none, smaller than, and larger than a file.
HashChunks == ChunkSizes \union {1, 4}

\* The kinds of io::Error a read can return.
ErrorKinds == {"Interrupted", "Other"}

\* hash.finish() / hash.finalize() over the bytes fed.
finish(alg, fed) ==
    CASE alg = "xxh" -> to_le_bytes(Numeral(fed))
      [] OTHER -> <<alg, Numeral(fed)>>

\* What file.read(&mut buff) can store when `room` bytes fit in the buffer:
\* any positive number of the bytes left in the file, or none.
readable(room) ==
    LET left == IF Len(io_bytes) > io_pos THEN Len(io_bytes) - io_pos ELSE 0
    IN  Min(room, left)

HashInit ==
    /\ io_op \in Digesters
    /\ io_bytes \in Contents
    /\ io_size = Len(io_bytes)
    /\ io_arg \in HashChunks
    /\ io_pos = 0
    /\ io_buf = <<>>
    /\ io_read_total = 0
    /\ io_status = "start"
    /\ io_err = "none"
    /\ io_intrs = 0

HashConfigUnchanged == UNCHANGED <<io_op, io_bytes, io_size, io_arg, notIo>>

\* fs::File::open(path)?, the buffer and the hasher.
HashOpen ==
    /\ io_status = "start"
    /\ \/ io_status' = "reading" /\ io_err' = "none"
       \/ io_status' = "failed" /\ io_err' = "Other"
    /\ UNCHANGED <<io_pos, io_buf, io_read_total, io_intrs>>
    /\ HashConfigUnchanged

\* let n = file.read(&mut buff)? with n > 0: buff[..n] is fed to the hasher.
HashFeed ==
    /\ io_status = "reading"
    /\ \E n \in 1..readable(io_arg) :
          /\ io_buf' = io_buf \o SubSeq(io_bytes, io_pos + 1, io_pos + n)
          /\ io_pos' = io_pos + n
    /\ UNCHANGED <<io_read_total, io_status, io_err, io_intrs>>
    /\ HashConfigUnchanged

\* n == 0: break, and the digest of what was fed is returned.
HashFinish ==
    /\ io_status = "reading"
    /\ readable(io_arg) = 0
    /\ io_status' = "ok"
    /\ UNCHANGED <<io_pos, io_buf, io_read_total, io_err, io_intrs>>
    /\ HashConfigUnchanged

\* file.read(&mut buff)? when the read returns Err(e): `?` returns the
\* error to the caller, whatever its kind.
HashReadErr ==
    /\ io_status = "reading"
    /\ \E e \in ErrorKinds :
          /\ io_err' = e
          /\ io_intrs' = io_intrs + (IF e = "Interrupted" THEN 1 ELSE 0)
    /\ io_status' = "failed"
    /\ UNCHANGED <<io_pos, io_buf, io_read_total>>
    /\ HashConfigUnchanged

HashNext == HashOpen \/ HashFeed \/ HashFinish \/ HashReadErr

InitHash ==
    /\ HashInit /\ DupsIdle /\ WalkIdle /\ TopIdle /\ SortIdle /\ LoopsIdle
    /\ DangIdle /\ NormIdle /\ ParIdle /\ CycIdle

SpecHash == InitHash /\ [][HashNext]_vars

\* C18: in each digester a read that fails with Interrupted is retried and
\* the digest is produced over the full content; only errors of another
\* kind make the operation fail.
C18_InterruptedIsRetried ==
    /\ io_status = "failed" => io_err # "Interrupted"
    /\ (io_status = "ok" /\ io_intrs > 0) =>
          finish(io_op, io_buf) = finish(io_op, io_bytes)

\* The read loop of the three digesters, read by read, feeds what
\* hash_loop feeds.
C18_StepsAgreeWithLoop ==
    io_status = "ok" => io_buf = hash_loop(io_bytes, 0, io_arg, <<>>)

(***************************************************************************)
(* dups: one call of a sampler (read_head, read_mid, read), read by read.  *)
(***************************************************************************)
Samplers == {"head", "mid"}

\* Interrupted reads per call.
MaxInterrupts == 2

\* The sizes a Meta of the initial group can record.
MetaSizes == {Len(c) : c \in Contents} \ {0}

\* An offset that centres the sample in the file.
sample_offset_centred(sampler, total, sample) ==
    IF sampler = "head" THEN 0 ELSE (total - Min(total, sample)) \div 2

\* SeekFrom::Start(0), and SeekFrom::Start(total / sample_size / 2).
sample_offset(sampler, total, sample) ==
    IF sampler = "head" THEN 0 ELSE (total \div sample) \div 2

\* A sample as long as asked for, whatever the size of the file.
sample_amount_asked(total, sample) == sample

\* let amount = min(total, sample_size)
sample_amount(total, sample) == Min(total, sample)

\* vec![0u8; amount]
zeroed(amount) == [i \in 1..amount |-> 0]

\* A read that stores its bytes at the start of the buffer.
fill_from_start(buf, at, chunk) ==
    [i \in 1..Len(buf) |-> IF i <= Len(chunk) THEN chunk[i] ELSE buf[i]]

\* file.read(&mut buf[read_total..]) storing `chunk`.
fill(buf, at, chunk) ==
    [i \in 1..Len(buf) |->
        IF at < i /\ i <= at + Len(chunk) THEN chunk[i - at] ELSE buf[i]]

\* What the file holds when it is read: a content as it was found, or one
\* that has been cut short since.
CurrentContents == Contents \union {<<0, 1>>}

SampleInit ==
    /\ io_op \in Samplers
    /\ io_bytes \in CurrentContents
    /\ io_size \in MetaSizes
    /\ io_arg \in SampleSizes
    /\ io_pos = 0
    /\ io_buf = <<>>
    /\ io_read_total = 0
    /\ io_status = "start"
    /\ io_err = "none"
    /\ io_intrs = 0

SampleConfigUnchanged == UNCHANGED <<io_op, io_bytes, io_size, io_arg, notIo>>

\* read_head / read_mid up to the loop of read: offset and amount, open,
\* seek, and the zeroed buffer.  read_mid divides by sample_size.
SampleCall ==
    /\ io_status = "start"
    /\ IF io_op = "mid" /\ io_arg = 0
       THEN /\ io_status' = "panicked"
            /\ UNCHANGED <<io_pos, io_buf, io_err>>
       ELSE \/ /\ io_status' = "reading"
               /\ io_pos' = sample_offset(io_op, io_size, io_arg)
               /\ io_buf' = zeroed(sample_amount(io_size, io_arg))
               /\ io_err' = "none"
            \/ /\ io_status' = "failed"
               /\ io_err' = "Other"
               /\ UNCHANGED <<io_pos, io_buf>>
    /\ UNCHANGED <<io_read_total, io_intrs>>
    /\ SampleConfigUnchanged

\* Ok(read_current): read_total += read_current.
SampleFill ==
    /\ io_status = "reading"
    /\ io_read_total < Len(io_buf)
    /\ \E n \in 1..readable(Len(io_buf) - io_read_total) :
          /\ io_buf' = fill(io_buf, io_read_total,
                            SubSeq(io_bytes, io_pos + 1, io_pos + n))
          /\ io_read_total' = io_read_total + n
          /\ io_pos' = io_pos + n
    /\ UNCHANGED <<io_status, io_err, io_intrs>>
    /\ SampleConfigUnchanged

\* Ok(0): EOF sooner than expected, break, Ok(buf).
SampleEof ==
    /\ io_status = "reading"
    /\ io_read_total < Len(io_buf)
    /\ readable(Len(io_buf) - io_read_total) = 0
    /\ io_status' = "ok"
    /\ UNCHANGED <<io_pos, io_buf, io_read_total, io_err, io_intrs>>
    /\ SampleConfigUnchanged

\* Err(e) of kind Interrupted: continue.
SampleInterrupted ==
    /\ io_status = "reading"
    /\ io_read_total < Len(io_buf)
    /\ io_intrs < MaxInterrupts
    /\ io_intrs' = io_intrs + 1
    /\ UNCHANGED <<io_pos, io_buf, io_read_total, io_status, io_err>>
    /\ SampleConfigUnchanged

\* Err(e) of another kind: return Err(e).
SampleFail ==
    /\ io_status = "reading"
    /\ io_read_total < Len(io_buf)
    /\ io_status' = "failed"
    /\ io_err' = "Other"
    /\ UNCHANGED <<io_pos, io_buf, io_read_total, io_intrs>>
    /\ SampleConfigUnchanged

\* The while condition fails: Ok(buf).
SampleReturn ==
    /\ io_status = "reading"
    /\ io_read_total = Len(io_buf)
    /\ io_status' = "ok"
    /\ UNCHANGED <<io_pos, io_buf, io_read_total, io_err, io_intrs>>
    /\ SampleConfigUnchanged

SampleNext ==
    \/ SampleCall
    \/ SampleFill
    \/ SampleEof
    \/ SampleInterrupted
    \/ SampleFail
    \/ SampleReturn

InitSample ==
    /\ SampleInit /\ DupsIdle /\ WalkIdle /\ TopIdle /\ SortIdle /\ LoopsIdle
    /\ DangIdle /\ NormIdle /\ ParIdle /\ CycIdle

SpecSample == InitSample /\ [][SampleNext]_vars

\* C19: the buffer a sampler returns has length min(size, sample_size),
\* size being the size in the Meta; it holds the bytes of the file from the
\* sampler's offset on, each once and in order, whether or not reads were
\* interrupted, and zero bytes where the file ended early.
C19_BufferIsSampleZeroPadded ==
    io_status = "ok" =>
        LET offset == sample_offset(io_op, io_size, io_arg)
        IN  /\ Len(io_buf) = Min(io_size, io_arg)
            /\ \A i \in 1..Len(io_buf) :
                  io_buf[i] = IF offset + i <= Len(io_bytes)
                              THEN io_bytes[offset + i]
                              ELSE 0

\* A sampler returned after an interrupted read, two short reads and an
\* early EOF, with a non-zero byte behind the first.
C19_Witness ==
    /\ io_status = "ok"
    /\ io_intrs > 0
    /\ io_read_total >= 2
    /\ io_read_total < Len(io_buf)
    /\ io_buf[2] # 0

(***************************************************************************)
(* path: one call of normalize.                                            *)
(***************************************************************************)
\* Segments per path.
MaxComps == 3

Segments == Names \union {"..", "."}

\* The paths given: with or without a leading "/", then up to MaxComps
\* segments.
GivenPaths ==
    [abs : BOOLEAN, segs : UNION {[1..n -> Segments] : n \in 0..MaxComps}]

\* The working directories: absolute paths of at most two names.
WorkingDirs == UNION {[1..n -> Names] : n \in 0..2}

\* Path::components: RootDir for a leading "/", and a "." only where it is
\* the first segment of a relative path.
components(p) ==
    LET kept == {i \in 1..Len(p.segs) : p.segs[i] # "." \/ (i = 1 /\ ~p.abs)}
        nth(k) == CHOOSE i \in kept : Cardinality({j \in kept : j < i}) = k - 1
    IN  (IF p.abs THEN <<"/">> ELSE <<>>)
            \o [k \in 1..Cardinality(kept) |-> p.segs[nth(k)]]

NormInit ==
    /\ n_working_dir \in WorkingDirs
    /\ n_path \in GivenPaths
    /\ n_normalized = <<>>
    /\ n_status = "given"

\* normalize(working_dir, path)
NormApply ==
    /\ n_status = "given"
    /\ n_normalized' = normalize(n_working_dir, components(n_path))
    /\ n_status' = "done"
    /\ UNCHANGED <<n_working_dir, n_path, notNorm>>

NormNext == NormApply

InitNorm ==
    /\ NormInit /\ DupsIdle /\ WalkIdle /\ TopIdle /\ SortIdle /\ LoopsIdle
    /\ DangIdle /\ IoIdle /\ ParIdle /\ CycIdle

SpecNorm == InitNorm /\ [][NormNext]_vars

\* One step of the fold: a root resets to "/", a name is appended, ".."
\* removes the last element and leaves "/" as it is, "." is ignored.
Folded1(acc, seg) ==
    CASE seg = "/" -> <<>>
      [] seg = ".." -> IF acc = <<>> THEN <<>> ELSE SubSeq(acc, 1, Len(acc) - 1)
      [] seg = "." -> acc
      [] OTHER -> Append(acc, seg)

\* The fold of the segments over the accumulator, from the left.
RECURSIVE Folded(_, _)
Folded(acc, segs) ==
    IF segs = <<>> THEN acc
    ELSE Folded1(Folded(acc, SubSeq(segs, 1, Len(segs) - 1)), segs[Len(segs)])

\* The path as written: the root, if any, and every segment.
Written(p) == (IF p.abs THEN <<"/">> ELSE <<>>) \o p.segs

\* C20: normalize(working_dir, path) is the fold of path's components over
\* an accumulator that starts at working_dir (root resets to "/", a name
\* is appended, ".." removes the last element and leaves "/" unchanged, "."
\* is ignored), so for an absolute path it does not depend on working_dir.
C20_NormalizeIsFold ==
    n_status = "done" =>
        /\ n_normalized = Folded(n_working_dir, Written(n_path))
        /\ n_path.abs => n_normalized = Folded(<<>>, Written(n_path))

\* An absolute path normalized against a working directory other than "/",
\* with a ".." at the root, a "." and a name.
C20_Witness ==
    /\ n_status = "done"
    /\ n_path.abs
    /\ n_working_dir # <<>>
    /\ Len(n_path.segs) = 3
    /\ n_path.segs[1] = ".."
    /\ n_path.segs[2] = "."
    /\ n_normalized # <<>>

(***************************************************************************)
(* dups: one call of refine, task by task on the thread pool.              *)
(***************************************************************************)
\* The pass `name` applied to each GroupList of the set.
passed(name, lists) == {apply_pass(name, gs, {}) : gs \in lists}

\* The call of refine is given the GroupList that find_files collects or
\* that the size, head or mid pass leaves, in a run in which no earlier
\* pass panicked.
ParInit ==
    /\ entries \in Listings
    /\ sample_size \in SampleSizes
    /\ chunk_size \in ChunkSizes
    /\ enable_blake3_pass = FALSE
    /\ enable_sha2_512_pass = FALSE
    /\ \E g0 \in {find_files} :
          \E g1 \in passed(Pipeline[1], {g0}) :
              \E g2 \in passed(Pipeline[2], {g1}) :
                  \E g3 \in passed(Pipeline[3], {g2}) :
                      LET lists == <<g0, g1, g2, g3>>
                      IN  /\ pass \in {k \in 0..(Len(lists) - 1) :
                                         \A j \in 1..k :
                                             ~panics(results(Pipeline[j], lists[j], {}))}
                          /\ groups = lists[pass + 1]
    /\ dstatus = "refining"
    /\ prev = <<>>
    /\ failed = {}
    /\ faults = 0
    /\ hashed = {}
    /\ par_name = Pipeline[pass + 1]
    /\ par_ids = <<>>
    /\ par_parts = <<>>
    /\ par_out = <<>>
    /\ par_status = "running"

ParConfigUnchanged == UNCHANGED <<dupsVars, par_name, notPar>>

\* The member tasks of group g.
member_tasks(g) == {<<g, i>> : i \in 1..Len(groups[g])}

\* A task of a group that starts as soon as one of its members is done.
joined_early(g) == member_tasks(g) \cap DOMAIN par_ids # {}

\* collect::<Vec<(Vec<u8>, Meta)>>() returns when every member task of the
\* group has returned.
joined(g) == member_tasks(g) \subseteq DOMAIN par_ids

\* The members of group g whose task has returned, in the order of the
\* group, which the collected Vec keeps.
returned(g) ==
    LET idx == {i \in 1..Len(groups[g]) : <<g, i>> \in DOMAIN par_ids}
        nth(k) == CHOOSE i \in idx : Cardinality({j \in idx : j < i}) = k - 1
    IN  [k \in 1..Cardinality(idx) |-> groups[g][nth(k)]]

\* What the member tasks of group g returned, by path.
returned_ids(g) ==
    [p \in {m.path : m \in Range(returned(g))} |->
        par_ids[CHOOSE t \in member_tasks(g) \cap DOMAIN par_ids :
                    groups[t[1]][t[2]].path = p]]

\* Lines 180-200: the task of one member calls the grouper.
ParMember ==
    /\ par_status = "running"
    /\ \E g \in 1..Len(groups) :
          \E t \in member_tasks(g) \ DOMAIN par_ids :
              LET r == grouper(par_name, groups[t[1]][t[2]], sample_size,
                               chunk_size, {})
              IN  IF r.kind = "Panic"
                  THEN /\ par_status' = "panicked"
                       /\ UNCHANGED par_ids
                  ELSE /\ par_ids' = par_ids @@ (t :> r)
                       /\ UNCHANGED par_status
    /\ UNCHANGED <<par_parts, par_out>>
    /\ ParConfigUnchanged

\* Lines 176-211: the task of one group fills its HashMap from the
\* collected pairs and emits the values of two members or more, in the
\* order the HashMap iterates.
ParGroup ==
    /\ par_status = "running"
    /\ \E g \in (1..Len(groups)) \ DOMAIN par_parts :
          /\ joined(g)
          /\ LET kept == refine_group(returned(g), returned_ids(g))
             IN  \E order \in Orders(Range(kept)) :
                     par_parts' = par_parts @@ (g :> order)
    /\ UNCHANGED <<par_ids, par_out, par_status>>
    /\ ParConfigUnchanged

\* Lines 214-216: flatten().collect() once every group task has returned.
ParCollect ==
    /\ par_status = "running"
    /\ DOMAIN par_parts = 1..Len(groups)
    /\ par_out' = flatten([g \in 1..Len(groups) |-> par_parts[g]])
    /\ par_status' = "done"
    /\ UNCHANGED <<par_ids, par_parts>>
    /\ ParConfigUnchanged

ParNext == ParMember \/ ParGroup \/ ParCollect

InitPar ==
    /\ ParInit /\ WalkIdle /\ TopIdle /\ SortIdle /\ LoopsIdle /\ DangIdle
    /\ IoIdle /\ NormIdle /\ CycIdle

SpecPar == InitPar /\ [][ParNext]_vars

\* The groups the pass `name` is to return for the GroupList gs: per
\* group of gs and per discriminator value, the members with that value,
\* where there are two or more.
Partition(name, gs) ==
    LET ok(g) == {m.path : m \in {x \in Range(gs[g]) :
                                     Discriminator(name, x.path).kind = "Ok"}}
        class(g, p) == {q \in ok(g) : Discriminator(name, q) = Discriminator(name, p)}
    IN  {S \in UNION {{class(g, p) : p \in ok(g)} : g \in 1..Len(gs)} :
            Cardinality(S) >= 2}

\* C26: for a fixed GroupList and a deterministic discriminator, what one
\* refine pass returns is, as a set of groups each taken as a set of
\* members, the same under every scheduling of the group tasks and the
\* member tasks.
C26_SchedulingIndependent ==
    par_status = "done" => AsSets(par_out) = Partition(par_name, groups)

\* A call that returned two groups or more in another order than the
\* order of first appearance.
C26_Witness ==
    /\ par_status = "done"
    /\ Len(par_out) >= 2
    /\ par_out # refine(groups, results(par_name, groups, {}))

(***************************************************************************)
(* dups: the samplers over a range of sizes and sample sizes.              *)
(***************************************************************************)
\* Largest file size and largest sample size.
MaxSize == 8
MaxSample == 8

\* A file of n bytes in which every byte tells its position.
numbered(n) == [i \in 1..n |-> i]

\* The file is as long as its Meta says, or has lost its last byte since.
MidInit ==
    /\ io_op \in Samplers
    /\ io_size \in 1..MaxSize
    /\ io_bytes \in {numbered(io_size), numbered(io_size - 1)}
    /\ io_arg \in 1..MaxSample
    /\ io_pos = 0
    /\ io_buf = <<>>
    /\ io_read_total = 0
    /\ io_status = "start"
    /\ io_err = "none"
    /\ io_intrs = 0

InitMid ==
    /\ MidInit /\ DupsIdle /\ WalkIdle /\ TopIdle /\ SortIdle /\ LoopsIdle
    /\ DangIdle /\ NormIdle /\ ParIdle /\ CycIdle

SpecMid == InitMid /\ [][SampleNext]_vars

\* The mid sampler has returned and the file is as its Meta says.
MidReturned ==
    /\ io_op = "mid"
    /\ io_status = "ok"
    /\ io_bytes = numbered(io_size)

\* C27: for size >= 1 and sample_size >= 1 the mid sampler returns the
\* min(size, sample_size) bytes from offset floor(floor(size / sample_size)
\* / 2) on; for size < 2 * sample_size that offset is 0 and the sample is
\* the head sample.
C27_MidOffset ==
    MidReturned =>
        /\ \E k \in 0..io_size :
              /\ \E q \in 0..io_size :
                    /\ q * io_arg <= io_size /\ io_size < (q + 1) * io_arg
                    /\ 2 * k <= q /\ q < 2 * (k + 1)
              /\ io_buf = [i \in 1..Min(io_size, io_arg) |-> k + i]
        /\ io_size < 2 * io_arg =>
              io_buf = [i \in 1..Min(io_size, io_arg) |-> i]

\* The mid sampler returned a sample from an offset other than 0 after an
\* interrupted read.
C27_Witness ==
    /\ MidReturned
    /\ io_intrs > 0
    /\ Len(io_buf) >= 2
    /\ io_buf[1] > 1

\* C28: for size >= 1 and sample_size >= 1 the window of the mid sample
\* lies inside the file, offset + amount <= size, so that on an unmodified
\* file the mid read never meets EOF early and returns no zero padding.
C28_MidWindowInsideFile ==
    (io_op = "mid" /\ io_bytes = numbered(io_size)) =>
        /\ io_status = "reading" =>
              /\ io_pos + (Len(io_buf) - io_read_total) <= io_size
              /\ io_read_total < Len(io_buf) =>
                    readable(Len(io_buf) - io_read_total) > 0
        /\ io_status = "ok" =>
              /\ io_read_total = Len(io_buf)
              /\ \A i \in 1..Len(io_buf) : io_buf[i] # 0

\* The mid sampler returned the last bytes of an unmodified file, from an
\* offset other than 0.
C28_Witness ==
    /\ MidReturned
    /\ Len(io_buf) >= 1
    /\ io_buf[1] > 1
    /\ io_buf[Len(io_buf)] = io_size

\* In a run of dups in which every file the mid pass is given is shorter
\* than 2 * sample_size, the mid pass returns the groups it was given.
C27_MidPassSeparatesNone ==
    (/\ pass = 3
     /\ dstatus # "panicked"
     /\ sample_size >= 1
     /\ \A m \in Members(prev) : m.size < 2 * sample_size)
        => AsSets(groups) = AsSets(prev)

(***************************************************************************)
(* loops: find_cycling_inode, one iteration of its while loop at a time.   *)
(***************************************************************************)
\* What the match on `current` can push, in the order it is pushed: the
\* Meta of a symlink's normalized target if from_path succeeds, the Metas of
\* a directory's entries in each order read_dir can list them.
expand(current) ==
    CASE is_symlink(current) ->
            LET dst == normalize(parent(current.path), current.dst)
                target == from_path(dst)
            IN  {IF target.ok THEN <<target.meta>> ELSE <<>>}
      [] is_directory(current) ->
            {metas_of(order) : order \in Orders(read_dir(current.path).entries)}
      [] OTHER -> {<<>>}

\* An iteration that forgets the inode it expanded.
visited_insert_skipped(set, ino) == set

\* visited.insert(current.ino)
visited_insert(set, ino) == set \union {ino}

\* find_cycling_inode is called with the Meta of a symlink of the tree.
CycInit ==
    /\ fs \in Trees(LoopEntries)
    /\ root_path = <<>>
    /\ skip_dirs = {}
    /\ skip_prefixes = {}
    /\ frontier = <<>>
    /\ out = <<>>
    /\ ended = FALSE
    /\ \E link \in {p \in DOMAIN fs : fs[p].typ = "Symlink"} :
          cyc_entry = from_path(link).meta
    /\ cyc_visited = {}
    /\ cyc_frontier = <<cyc_entry>>
    /\ pops = 0
    /\ expanded = <<>>
    /\ cyc_result = None
    /\ cyc_status = "running"

CycConfigUnchanged == UNCHANGED <<cyc_entry, notCyc>>

\* Lines 63-64: the popped Meta's inode is in visited, return Ok(Some(ino)).
CycleRevisit ==
    /\ cyc_status = "running"
    /\ cyc_frontier # <<>>
    /\ LET current == frontier_pop(cyc_frontier).meta
       IN  /\ current.ino \in cyc_visited
           /\ cyc_result' = Some(current.ino)
    /\ cyc_frontier' = frontier_pop(cyc_frontier).rest
    /\ pops' = pops + 1
    /\ cyc_status' = "done"
    /\ UNCHANGED <<cyc_visited, expanded>>
    /\ CycConfigUnchanged

\* Lines 66-100: the popped Meta is expanded and its inode inserted.
CycleExpand ==
    /\ cyc_status = "running"
    /\ cyc_frontier # <<>>
    /\ LET current == frontier_pop(cyc_frontier).meta
       IN  /\ current.ino \notin cyc_visited
           /\ \E more \in expand(current) :
                 cyc_frontier' = frontier_pop(cyc_frontier).rest \o more
           /\ cyc_visited' = visited_insert(cyc_visited, current.ino)
           /\ expanded' = Append(expanded, current.ino)
    /\ pops' = pops + 1
    /\ UNCHANGED <<cyc_result, cyc_status>>
    /\ CycConfigUnchanged

\* Lines 89-96: read_dir, an entry or its metadata fails, `?` returns.
CycleReadErr ==
    /\ cyc_status = "running"
    /\ cyc_frontier # <<>>
    /\ LET current == frontier_pop(cyc_frontier).meta
       IN  /\ current.ino \notin cyc_visited
           /\ is_directory(current)
    /\ cyc_frontier' = frontier_pop(cyc_frontier).rest
    /\ pops' = pops + 1
    /\ cyc_status' = "failed"
    /\ UNCHANGED <<cyc_visited, expanded, cyc_result>>
    /\ CycConfigUnchanged

\* Line 102: the frontier is empty, Ok(None).
CycleEnd ==
    /\ cyc_status = "running"
    /\ cyc_frontier = <<>>
    /\ cyc_result' = None
    /\ cyc_status' = "done"
    /\ UNCHANGED <<cyc_visited, cyc_frontier, pops, expanded>>
    /\ CycConfigUnchanged

CycleNext == CycleRevisit \/ CycleExpand \/ CycleReadErr \/ CycleEnd

InitCycle ==
    /\ CycInit /\ DupsIdle /\ TopIdle /\ SortIdle /\ LoopsIdle /\ DangIdle
    /\ IoIdle /\ NormIdle /\ ParIdle

SpecCycle == InitCycle /\ [][CycleNext]_vars

\* The while loop is one thread: an iteration that can run does run.
SpecCycleFair == SpecCycle /\ WF_vars(CycleNext)

\* The inodes of the objects reachable from the entry, the entry included.
ReachableInodes == {fs[p].ino : p \in ReachFrom({cyc_entry.path})}

\* No inode was expanded twice, and the loop popped at most once more than
\* there are reachable inodes.
PopsBounded ==
    /\ \A i, j \in 1..Len(expanded) : expanded[i] = expanded[j] => i = j
    /\ \A i \in 1..Len(expanded) : expanded[i] \in ReachableInodes
    /\ pops <= Cardinality(ReachableInodes) + 1

\* C29: find_cycling_inode terminates on every finite graph, cyclic or
\* not: every inode is expanded at most once, and the number of pops is at
\* most the number of distinct reachable inodes plus one.
C29_Terminates == []PopsBounded /\ <>(cyc_status # "running")

\* A call on a cyclic graph that returned Some(inode) with its last pop,
\* having popped once more than there are reachable inodes.
C29_Witness ==
    /\ cyc_status = "done"
    /\ cyc_result.some
    /\ Cardinality(ReachableInodes) >= 3
    /\ pops = Cardinality(ReachableInodes) + 1

\* A finished call returned what find_cycling_inode can return.
C29_StepsAgreeWithDetect ==
    cyc_status = "done" => cyc_result \in find_cycling_inode(cyc_entry)

(***************************************************************************)
(* Properties of the streaming digesters.                                  *)
(***************************************************************************)
\* C30: for every content and every chunk_size, 0 and sizes larger than
\* the file included, a digester that returns returns the digest of the
\* entire content of the file, whatever the chunk_size.
C30_DigestOfWholeContent ==
    io_status = "ok" => finish(io_op, io_buf) = finish(io_op, io_bytes)

\* With a chunk_size of 1 or more the digest is that of the entire content.
C30_WholeContentUnlessChunkZero ==
    (io_status = "ok" /\ io_arg >= 1) =>
        /\ io_buf = io_bytes
        /\ finish(io_op, io_buf) = finish(io_op, io_bytes)

\* With a chunk_size of 0 every file gets the digest of the empty input.
C30_ChunkZeroHashesNothing ==
    (io_status = "ok" /\ io_arg = 0) => io_buf = <<>>

====
